---------------------------- MODULE Spec2Model ----------------------------
(***************************************************************************)
(* Model of the bank-statement extraction engine of bancos-reader:         *)
(*   parsers/bbva.py     positional extractor, column resolver, row        *)
(*                       grouper, amount and abbreviated-date normalizers  *)
(*   parsers/bbva_tc.py  line-pattern extractor and its normalizers        *)
(*   core/detector_banco.py  strategy detector                             *)
(*   ui/ui.py            batch processing, message pump, export workers    *)
(* Text is modelled as a sequence of one-character strings, so that the    *)
(* character-level conversions of the source are computed, not assumed.    *)
(***************************************************************************)
EXTENDS Integers, Sequences, FiniteSets, TLC

VARIABLES
    mode,           \* which entry point of the program this behaviour exercises
    fn,             \* normalizers, resolver, grouper: the function applied
    arg,            \* normalizers, resolver, grouper: the argument(s) of the call
    ret,            \* normalizers, resolver, grouper: the value returned
    pdf,            \* extractors: the pages of the open document
    num_pagina,     \* extractors: number of the page being visited, from 1
    idx,            \* extractors: index in the page of the next line or row
    stop_found,     \* line-pattern extractor: a stop marker has been read
    movimientos,    \* extractors: the records appended so far
    df,             \* extractors: the DataFrame returned, <<>> until then
    pc,             \* extractors: position in parse_movimientos
    anio,           \* positional extractor: year read from the cover page
    col_centers,    \* positional extractor: column centres of the page
    filas,          \* positional extractor: rows of the page
    idx_ultimo_mov, \* positional extractor: index in movimientos of the open
                    \* transaction, from 1; 0 stands for None
    abiertos,       \* detector, batch: the paths opened to sniff their content
    selected_files, \* batch: the documents selected, in order
    i_archivo,      \* batch: index in selected_files of the document in turn
    parser,         \* batch: the parser chosen for the document in turn
    dfs,            \* batch: the DataFrames of the documents read so far
    fallidos,       \* batch: the failure list
    _ui_queue,      \* window: the messages of the workers not yet taken
    _save_reply_q,  \* window: the save-path replies not yet taken
    sondeo,         \* window: whether _poll_ui_queue is scheduled or running
    hilos,          \* window: the export workers started, in order
    db_path         \* window: the workers whose tables the temporary
                    \* database holds

vars == <<mode, fn, arg, ret, pdf, num_pagina, idx, stop_found, movimientos, df, pc,
          anio, col_centers, filas, idx_ultimo_mov, abiertos, selected_files,
          i_archivo, parser, dfs, fallidos, _ui_queue, _save_reply_q, sondeo,
          hilos, db_path>>

\* the state of the window
interfaz == <<_ui_queue, _save_reply_q, sondeo, hilos, db_path>>

\* no window is open
SinInterfaz ==
    /\ _ui_queue = <<>> /\ _save_reply_q = <<>> /\ sondeo = ""
    /\ hilos = <<>> /\ db_path = {}

\* the state of the detector and of a batch
lote == <<abiertos, selected_files, i_archivo, parser, dfs, fallidos>>

\* no batch is running
SinLote ==
    /\ abiertos = <<>> /\ selected_files = <<>> /\ i_archivo = 0
    /\ parser = <<>> /\ dfs = <<>> /\ fallidos = <<>>

\* the locals of the positional extractor
posicional == <<anio, col_centers, filas, idx_ultimo_mov>>

\* the state of a call of a normalizer, the resolver or the grouper
llamada == <<fn, arg, ret>>

\* the state of a run of parse_movimientos
extraccion == <<pdf, num_pagina, idx, stop_found, movimientos, df, pc, anio,
                col_centers, filas, idx_ultimo_mov>>

\* no document is open
SinExtraccion ==
    /\ pdf = <<>> /\ num_pagina = 0 /\ idx = 0 /\ stop_found = FALSE
    /\ movimientos = <<>> /\ df = <<>> /\ pc = ""
    /\ anio = <<>> /\ col_centers = <<>> /\ filas = <<>> /\ idx_ultimo_mov = 0

\* no function is being applied
SinLlamada == fn = "" /\ arg = <<>> /\ ret = <<>>

----------------------------------------------------------------------------
(* Python values *)

\* a list comprehension is evaluated when it is built: f as a tuple
Lista(f) == <<>> \o f

\* None where a float is expected (Optional[float])
None == [tag |-> "None"]

\* None where a str is expected (Optional[str]); no text contains this element
NoneStr == <<"None">>

\* a float holding the decimal number (-1)^neg * num / 10^scale, trailing
\* zeros of the fraction removed
RECURSIVE Normalizar(_, _)
Normalizar(num, scale) ==
    IF scale > 0 /\ num % 10 = 0 THEN Normalizar(num \div 10, scale - 1)
    ELSE <<num, scale>>

Float(neg, num, scale) ==
    LET n == Normalizar(num, scale)
    IN  [tag |-> "float", neg |-> neg, num |-> n[1], scale |-> n[2]]

\* Python's == on floats: -0.0 == 0.0
FloatEq(a, b) ==
    /\ a.tag = "float" /\ b.tag = "float"
    /\ a.num = b.num /\ a.scale = b.scale
    /\ (a.num # 0 => a.neg = b.neg)

\* Python's < 0 on a float: -0.0 < 0 is False
FloatNegativo(a) == a.neg /\ a.num # 0

\* abs()
FloatAbs(a) == [a EXCEPT !.neg = FALSE]

----------------------------------------------------------------------------
(* str methods *)

Digitos == {"0", "1", "2", "3", "4", "5", "6", "7", "8", "9"}

Mayusculas == {"A", "B", "C", "D", "E", "F", "G", "H", "I", "J", "K", "L", "M",
               "N", "O", "P", "Q", "R", "S", "T", "U", "V", "W", "X", "Y", "Z"}

\* the non-breaking space, U+00A0
NBSP == "nbsp"

\* the whitespace str.strip() and str.split() remove
Espacios == {" ", NBSP}

DigitoVal(c) ==
    CASE c = "0" -> 0 [] c = "1" -> 1 [] c = "2" -> 2 [] c = "3" -> 3
      [] c = "4" -> 4 [] c = "5" -> 5 [] c = "6" -> 6 [] c = "7" -> 7
      [] c = "8" -> 8 [] c = "9" -> 9

\* the digit of a number below ten
DigitoChar(n) == CHOOSE c \in Digitos : DigitoVal(c) = n

\* str.upper() on one character
UpperChar(c) ==
    CASE c = "a" -> "A" [] c = "b" -> "B" [] c = "c" -> "C" [] c = "d" -> "D"
      [] c = "e" -> "E" [] c = "f" -> "F" [] c = "g" -> "G" [] c = "h" -> "H"
      [] c = "i" -> "I" [] c = "j" -> "J" [] c = "k" -> "K" [] c = "l" -> "L"
      [] c = "m" -> "M" [] c = "n" -> "N" [] c = "o" -> "O" [] c = "p" -> "P"
      [] c = "q" -> "Q" [] c = "r" -> "R" [] c = "s" -> "S" [] c = "t" -> "T"
      [] c = "u" -> "U" [] c = "v" -> "V" [] c = "w" -> "W" [] c = "x" -> "X"
      [] c = "y" -> "Y" [] c = "z" -> "Z" [] c = "ñ" -> "Ñ" [] c = "á" -> "Á"
      [] c = "é" -> "É" [] c = "í" -> "Í" [] c = "ó" -> "Ó" [] c = "ú" -> "Ú"
      [] OTHER -> c

Upper(s) == Lista([i \in 1..Len(s) |-> UpperChar(s[i])])

\* s.replace(c, "")
Quitar(s, c) == SelectSeq(s, LAMBDA x : x # c)

\* s.replace(c, d) for single characters c, d
Reemplazar(s, c, d) == Lista([i \in 1..Len(s) |-> IF s[i] = c THEN d ELSE s[i]])

\* c in s
Contiene(s, c) == \E i \in 1..Len(s) : s[i] = c

\* s.count(c)
Cuenta(s, c) == Cardinality({i \in 1..Len(s) : s[i] = c})

RECURSIVE LStrip(_)
LStrip(s) == IF s # <<>> /\ Head(s) \in Espacios THEN LStrip(Tail(s)) ELSE s

RECURSIVE RStrip(_)
RStrip(s) ==
    IF s # <<>> /\ s[Len(s)] \in Espacios THEN RStrip(SubSeq(s, 1, Len(s) - 1))
    ELSE s

\* s.strip()
Strip(s) == RStrip(LStrip(s))

\* int() of a sequence of decimal digits, 0 for the empty sequence
RECURSIVE DigitosAInt(_)
DigitosAInt(s) ==
    IF s = <<>> THEN 0
    ELSE 10 * DigitosAInt(SubSeq(s, 1, Len(s) - 1)) + DigitoVal(s[Len(s)])

\* float(s): an optional sign, then decimal digits with at most one point and
\* at least one digit; anything else raises ValueError (here: None)
PyFloat(s) ==
    LET signo == s # <<>> /\ Head(s) \in {"-", "+"}
        cuerpo == IF signo THEN Tail(s) ELSE s
        punto == IF Contiene(cuerpo, ".")
                 THEN CHOOSE i \in 1..Len(cuerpo) : cuerpo[i] = "."
                 ELSE Len(cuerpo) + 1
        entero == SubSeq(cuerpo, 1, punto - 1)
        fraccion == SubSeq(cuerpo, punto + 1, Len(cuerpo))
    IN  IF /\ \A i \in 1..Len(cuerpo) : cuerpo[i] \in Digitos \cup {"."}
           /\ Cuenta(cuerpo, ".") <= 1
           /\ Len(entero) + Len(fraccion) >= 1
        THEN Float(signo /\ Head(s) = "-",
                   DigitosAInt(entero \o fraccion), Len(fraccion))
        ELSE None

----------------------------------------------------------------------------
(* Field normalizers *)

\* parsers/bbva.py _limpiar_monto
_limpiar_monto(valor) ==
    IF valor = NoneStr THEN None
    ELSE LET txt0 == Strip(valor)
             txt1 == Quitar(Quitar(txt0, "$"), " ")
             txt2 == IF Contiene(txt1, ",") /\ Contiene(txt1, ".")
                     THEN Quitar(txt1, ",")
                     ELSE IF Contiene(txt1, ",") /\ ~Contiene(txt1, ".")
                          THEN Reemplazar(Quitar(txt1, "."), ",", ".")
                          ELSE txt1
         IN  IF txt0 = <<>> \/ txt0 = <<"-">> THEN None
             ELSE IF Cuenta(txt2, "-") = 1 /\ txt2 # <<>> /\ Head(txt2) = "-"
                  THEN PyFloat(Quitar(txt2, "-"))
                  ELSE PyFloat(txt2)

\* parsers/bbva_tc.py _limpiar_monto
_limpiar_monto_tc(txt) ==
    IF txt = NoneStr THEN None
    ELSE LET s0 == Quitar(Quitar(Strip(txt), "$"), " ")
             s1 == IF Contiene(s0, ",") /\ Contiene(s0, ".")
                   THEN Quitar(s0, ",")
                   ELSE IF Contiene(s0, ",") /\ ~Contiene(s0, ".")
                        THEN Reemplazar(Quitar(s0, "."), ",", ".")
                        ELSE s0
         IN  IF s0 = <<>> THEN None ELSE PyFloat(s1)


\* _mes_str_a_num with the default of the lookup changed: an unknown
\* abbreviation gives "00"
_mes_str_a_num_sin_enero(mes) ==
    LET m == Upper(mes)
    IN  CASE m = <<"E", "N", "E">> -> <<"0", "1">>
          [] m = <<"F", "E", "B">> -> <<"0", "2">>
          [] m = <<"M", "A", "R">> -> <<"0", "3">>
          [] m = <<"A", "B", "R">> -> <<"0", "4">>
          [] m = <<"M", "A", "Y">> -> <<"0", "5">>
          [] m = <<"J", "U", "N">> -> <<"0", "6">>
          [] m = <<"J", "U", "L">> -> <<"0", "7">>
          [] m = <<"A", "G", "O">> -> <<"0", "8">>
          [] m = <<"S", "E", "P">> -> <<"0", "9">>
          [] m = <<"O", "C", "T">> -> <<"1", "0">>
          [] m = <<"N", "O", "V">> -> <<"1", "1">>
          [] m = <<"D", "I", "C">> -> <<"1", "2">>
          [] OTHER -> <<"0", "0">>

\* parsers/bbva.py _mes_str_a_num
_mes_str_a_num(mes) ==
    LET m == Upper(mes)
    IN  CASE m = <<"E", "N", "E">> -> <<"0", "1">>
          [] m = <<"F", "E", "B">> -> <<"0", "2">>
          [] m = <<"M", "A", "R">> -> <<"0", "3">>
          [] m = <<"A", "B", "R">> -> <<"0", "4">>
          [] m = <<"M", "A", "Y">> -> <<"0", "5">>
          [] m = <<"J", "U", "N">> -> <<"0", "6">>
          [] m = <<"J", "U", "L">> -> <<"0", "7">>
          [] m = <<"A", "G", "O">> -> <<"0", "8">>
          [] m = <<"S", "E", "P">> -> <<"0", "9">>
          [] m = <<"O", "C", "T">> -> <<"1", "0">>
          [] m = <<"N", "O", "V">> -> <<"1", "1">>
          [] m = <<"D", "I", "C">> -> <<"1", "2">>
          [] OTHER -> <<"0", "1">>

\* re.match(r"^(\d{2})/([A-Z]{3})$", s)
MatchDDMes(s) ==
    /\ Len(s) = 6
    /\ s[1] \in Digitos /\ s[2] \in Digitos
    /\ s[3] = "/"
    /\ s[4] \in Mayusculas /\ s[5] \in Mayusculas /\ s[6] \in Mayusculas

\* parsers/bbva.py _fecha_ddmes_a_iso
_fecha_ddmes_a_iso(fecha_ddmes, an) ==
    LET u == Upper(fecha_ddmes)
    IN  IF ~MatchDDMes(u) THEN fecha_ddmes
        ELSE an \o <<"-">> \o _mes_str_a_num(SubSeq(u, 4, 6))
                  \o <<"-">> \o SubSeq(u, 1, 2)

\* parsers/bbva.py BBVAParser._parse_fecha
_parse_fecha(fecha_ddmes, an) ==
    LET a == IF an = NoneStr \/ an = <<>> THEN <<"2", "0", "2", "5">> ELSE an
        f == Upper(Strip(fecha_ddmes))
    IN  IF ~MatchDDMes(f) THEN f
        ELSE a \o <<"-">> \o _mes_str_a_num(SubSeq(f, 4, 6))
               \o <<"-">> \o SubSeq(f, 1, 2)

----------------------------------------------------------------------------
(* Inputs of the normalizers *)

\* longest run of digits before the first separator of a generated amount
MaxCabeza == 2

DigitosMonto == {"0", "1"}

\* all sequences of length n over the set S
RECURSIVE Palabras(_, _)
Palabras(S, n) ==
    IF n = 0 THEN {<<>>}
    ELSE {<<c>> \o w : c \in S, w \in Palabras(S, n - 1)}

Cabezas == UNION {Palabras(DigitosMonto, n) : n \in 1..MaxCabeza}

\* amount texts: [$ ][-]head[(,|.)ddd][(,|.)dd], and the texts the source and
\* the documents quote
MontoInputs ==
    {pre \o sig \o cab \o grp \o dec :
        pre \in {<<>>, <<"$", " ">>},
        sig \in {<<>>, <<"-">>},
        cab \in Cabezas,
        grp \in {<<>>} \cup {<<sep>> \o g : sep \in {",", "."},
                                             g \in Palabras(DigitosMonto, 3)},
        dec \in {<<>>} \cup {<<sep>> \o d : sep \in {",", "."},
                                             d \in Palabras(DigitosMonto, 2)}}
    \cup {<<"1", ",", "2", "3", "4", ".", "5", "6">>,
          <<"1", ".", "2", "3", "4", ",", "5", "6">>,
          <<"1", "2", "3", "4", ",", "5", "6">>,
          <<"-", "1", "2", ",", "4", "3", "2", ".", "3", "4">>,
          <<"1", "-", "2">>, <<"-", "-", "1">>,
          <<>>, <<"-">>, <<" ">>, <<"$">>, NoneStr}

MesesConocidos ==
    {<<"E", "N", "E">>, <<"F", "E", "B">>, <<"M", "A", "R">>, <<"A", "B", "R">>,
     <<"M", "A", "Y">>, <<"J", "U", "N">>, <<"J", "U", "L">>, <<"A", "G", "O">>,
     <<"S", "E", "P">>, <<"O", "C", "T">>, <<"N", "O", "V">>, <<"D", "I", "C">>}

LetrasMes == {"E", "N", "X"}

DigitosDia == {"0", "1", "3"}

\* date texts: DD/MON with known and unknown month tokens, and malformed ones
FechaInputs ==
    {d \o <<"/">> \o m : d \in Palabras(DigitosDia, 2),
                         m \in MesesConocidos \cup Palabras(LetrasMes, 3)}
    \cup {<<"0", "1", "/", "j", "u", "l">>,
          <<" ", "0", "1", "/", "J", "U", "L", " ">>,
          <<"1", "/", "J", "U", "L">>,
          <<"0", "1", "-", "J", "U", "L">>,
          <<"0", "1", "/", "J", "U", "L", "Y">>,
          <<"0", "1", "/", "0", "7">>,
          <<>>}

AnioInputs == {<<"2", "0", "2", "5">>, <<"1", "9", "9", "9">>, <<"0", "0", "0", "7">>}

----------------------------------------------------------------------------
(* The normalizers applied to one input *)

InitNorm ==
    /\ mode \in {"monto", "fecha"}
    /\ SinInterfaz
    /\ fn = ""
    /\ arg \in IF mode = "monto"
               THEN [txt : MontoInputs]
               ELSE [fecha_ddmes : FechaInputs, anio : AnioInputs \cup {NoneStr}]
    /\ ret = None
    /\ SinExtraccion
    /\ SinLote

Llamar_limpiar_monto ==
    /\ mode = "monto" /\ fn = ""
    /\ fn' = "_limpiar_monto"
    /\ ret' = _limpiar_monto(arg.txt)
    /\ UNCHANGED interfaz
    /\ UNCHANGED <<mode, arg, extraccion, lote>>

Llamar_limpiar_monto_tc ==
    /\ mode = "monto" /\ fn = ""
    /\ fn' = "_limpiar_monto_tc"
    /\ ret' = _limpiar_monto_tc(arg.txt)
    /\ UNCHANGED interfaz
    /\ UNCHANGED <<mode, arg, extraccion, lote>>

Llamar_parse_fecha ==
    /\ mode = "fecha" /\ fn = ""
    /\ fn' = "_parse_fecha"
    /\ ret' = _parse_fecha(arg.fecha_ddmes, arg.anio)
    /\ UNCHANGED interfaz
    /\ UNCHANGED <<mode, arg, extraccion, lote>>

Llamar_fecha_ddmes_a_iso ==
    /\ mode = "fecha" /\ fn = "" /\ arg.anio # NoneStr
    /\ fn' = "_fecha_ddmes_a_iso"
    /\ ret' = _fecha_ddmes_a_iso(arg.fecha_ddmes, arg.anio)
    /\ UNCHANGED interfaz
    /\ UNCHANGED <<mode, arg, extraccion, lote>>

NextNorm ==
    \/ Llamar_limpiar_monto
    \/ Llamar_limpiar_monto_tc
    \/ Llamar_parse_fecha
    \/ Llamar_fecha_ddmes_a_iso

SpecNorm == InitNorm /\ [][NextNorm]_vars

----------------------------------------------------------------------------
(* Page geometry: words with bounding boxes *)

\* A word of a page is [text, x0, x1, top].  Coordinates are integers; a
\* horizontal centre (x0 + x1) / 2 is kept doubled, as x0 + x1, so that no
\* fraction arises (centres are only compared with centres).
Centro2(w) == w.x0 + w.x1

Abs(n) == IF n < 0 THEN 0 - n ELSE n

\* a < b on tuples of integers of one length, as Python compares tuples
LexMenor(a, b) ==
    \E i \in 1..Len(a) : a[i] < b[i] /\ \A j \in 1..(i - 1) : a[j] = b[j]

\* list.sort(key=...) / sorted(..., key=...): the stable sort of s by the keys
\* claves, claves[i] being the key of s[i]
Ordenar(s, claves) ==
    LET rango(i) == Cardinality({j \in 1..Len(s) :
                        \/ LexMenor(claves[j], claves[i])
                        \/ claves[j] = claves[i] /\ j < i}) + 1
        rangos == Lista([i \in 1..Len(s) |-> rango(i)])
    IN  Lista([r \in 1..Len(s) |-> s[CHOOSE i \in 1..Len(s) : rangos[i] = r]])

\* sorted(words, key=lambda ww: (ww["top"], ww["x0"]))
OrdenarPorTopX0(ws) ==
    Ordenar(ws, Lista([i \in 1..Len(ws) |-> <<ws[i].top, ws[i].x0>>]))

CARGOS == <<"C", "A", "R", "G", "O", "S">>
ABONOS == <<"A", "B", "O", "N", "O", "S">>
OPERACION == <<"O", "P", "E", "R", "A", "C", "I", "O", "N">>
LIQUIDACION == <<"L", "I", "Q", "U", "I", "D", "A", "C", "I", "O", "N">>

\* _detectar_columnas_montos: objetivos
objetivos == {CARGOS, ABONOS, OPERACION, LIQUIDACION}

\* _detectar_columnas_montos: norm
norm(txt) ==
    LET t == Strip(Upper(txt))
    IN  Reemplazar(Reemplazar(Reemplazar(Reemplazar(t, "Ó", "O"), "Á", "A"),
                              "Í", "I"), "Ú", "U")

\* default tol_fila of _detectar_columnas_montos
tol_fila == 3

\* step 2 of _detectar_columnas_montos: each hit goes to the first group whose
\* first word is within tol_fila of it, or opens a new group
RECURSIVE AgruparHits(_, _, _)
AgruparHits(hits, i, grupos) ==
    IF i > Len(hits) THEN grupos
    ELSE LET w == hits[i]
             cabe(n) == Abs(w.top - grupos[n][1].top) <= tol_fila
         IN  IF \E n \in 1..Len(grupos) : cabe(n)
             THEN LET n == CHOOSE m \in 1..Len(grupos) :
                               cabe(m) /\ \A l \in 1..(m - 1) : ~cabe(l)
                  IN  AgruparHits(hits, i + 1,
                                  [grupos EXCEPT ![n] = Append(@, w)])
             ELSE AgruparHits(hits, i + 1, Append(grupos, <<w>>))

\* A Python dict is the sequence of its entries [k, v] in insertion order
\* (the order in which dict.items() yields them).
DictKeys(d) == {d[i].k : i \in 1..Len(d)}

\* d[k], for a key of d
DictGet(d, k) == d[CHOOSE i \in 1..Len(d) : d[i].k = k].v

\* d[k] = v: a new key is appended, an existing key keeps its position
DictSet(d, k, v) ==
    IF k \in DictKeys(d)
    THEN Lista([i \in 1..Len(d) |->
                   IF d[i].k = k THEN [k |-> k, v |-> v] ELSE d[i]])
    ELSE Append(d, [k |-> k, v |-> v])

\* the value None where a dict is expected; the source only tests it with
\* "not col_centers", which an empty dict satisfies as well
NoneDict == <<>>

\* step 3 of _detectar_columnas_montos: the keys of a group, and its centres
\* (a later word of the group overwrites an earlier one of the same key)
KeysDe(g) == {g[i]._k : i \in 1..Len(g)}

RECURSIVE CentersDesde(_, _, _)
CentersDesde(g, i, centers) ==
    IF i > Len(g) THEN centers
    ELSE CentersDesde(g, i + 1, DictSet(centers, g[i]._k, Centro2(g[i])))

CentersDe(g) == CentersDesde(g, 1, <<>>)

Candidatos(grupos) ==
    LET completos == SelectSeq(grupos, LAMBDA g : objetivos \subseteq KeysDe(g))
    IN  Lista([n \in 1..Len(completos) |->
            [top |-> completos[n][1].top, centers |-> CentersDe(completos[n])]])

HitsDe(words) ==
    LET rel == SelectSeq(words, LAMBDA w : norm(w.text) \in objetivos)
    IN  Lista([i \in 1..Len(rel) |->
            [text |-> rel[i].text, x0 |-> rel[i].x0, x1 |-> rel[i].x1,
             top |-> rel[i].top, _k |-> norm(rel[i].text)]])

\* _detectar_columnas_montos choosing the lowest complete header row
_detectar_columnas_montos_ultimo(words) ==
    LET hits == OrdenarPorTopX0(HitsDe(words))
        candidatos == Candidatos(AgruparHits(hits, 1, <<>>))
        ordenados == Ordenar(candidatos,
                             Lista([n \in 1..Len(candidatos) |-> <<candidatos[n].top>>]))
    IN  IF hits = <<>> \/ candidatos = <<>> THEN NoneDict
        ELSE ordenados[Len(ordenados)].centers

\* parsers/bbva.py BBVAParser._detectar_columnas_montos
_detectar_columnas_montos(words) ==
    LET hits == OrdenarPorTopX0(HitsDe(words))
        candidatos == Candidatos(AgruparHits(hits, 1, <<>>))
        ordenados == Ordenar(candidatos,
                             Lista([n \in 1..Len(candidatos) |-> <<candidatos[n].top>>]))
    IN  IF hits = <<>> \/ candidatos = <<>> THEN NoneDict
        ELSE ordenados[1].centers

\* default tol of _agrupar_filas
tol == 2

\* the loop of _agrupar_filas over the sorted words ws from index i on;
\* current_top is None (here -1, no offset is negative) before the first word
RECURSIVE AgruparDesde(_, _, _, _, _)
AgruparDesde(ws, i, rows, current, current_top) ==
    IF i > Len(ws) THEN IF current # <<>> THEN Append(rows, current) ELSE rows
    ELSE LET w == ws[i]
         IN  IF current_top = -1
             THEN AgruparDesde(ws, i + 1, rows, Append(current, w), w.top)
             ELSE IF Abs(w.top - current_top) > tol
                  THEN AgruparDesde(ws, i + 1, Append(rows, current), <<w>>, w.top)
                  ELSE AgruparDesde(ws, i + 1, rows, Append(current, w),
                                    current_top)

\* _agrupar_filas comparing each word with the word before it, not with the
\* first word of the row
RECURSIVE AgruparEncadenado(_, _, _, _, _)
AgruparEncadenado(ws, i, rows, current, current_top) ==
    IF i > Len(ws) THEN IF current # <<>> THEN Append(rows, current) ELSE rows
    ELSE LET w == ws[i]
         IN  IF current_top = -1
             THEN AgruparEncadenado(ws, i + 1, rows, Append(current, w), w.top)
             ELSE IF Abs(w.top - current_top) > tol
                  THEN AgruparEncadenado(ws, i + 1, Append(rows, current), <<w>>,
                                         w.top)
                  ELSE AgruparEncadenado(ws, i + 1, rows, Append(current, w),
                                         w.top)

_agrupar_filas_encadenado(words) ==
    AgruparEncadenado(OrdenarPorTopX0(words), 1, <<>>, <<>>, -1)

\* _agrupar_filas splitting a word that is exactly tol away from the anchor
RECURSIVE AgruparEstricto(_, _, _, _, _)
AgruparEstricto(ws, i, rows, current, current_top) ==
    IF i > Len(ws) THEN IF current # <<>> THEN Append(rows, current) ELSE rows
    ELSE LET w == ws[i]
         IN  IF current_top = -1
             THEN AgruparEstricto(ws, i + 1, rows, Append(current, w), w.top)
             ELSE IF Abs(w.top - current_top) >= tol
                  THEN AgruparEstricto(ws, i + 1, Append(rows, current), <<w>>,
                                       w.top)
                  ELSE AgruparEstricto(ws, i + 1, rows, Append(current, w),
                                       current_top)

_agrupar_filas_estricto(words) ==
    AgruparEstricto(OrdenarPorTopX0(words), 1, <<>>, <<>>, -1)

\* parsers/bbva.py BBVAParser._agrupar_filas
_agrupar_filas(words) == AgruparDesde(OrdenarPorTopX0(words), 1, <<>>, <<>>, -1)

----------------------------------------------------------------------------
(* The column resolver and the row grouper applied to one page *)

\* largest vertical offset of a word of a generated body page
MaxTop == 5

\* largest number of words of a generated body page
MaxPalabras == 3

\* largest vertical distance between the words of the upper header row
MaxDesnivel == 1

\* largest vertical distance between the two header rows
MaxSeparacion == 6

Palabra(text, x0, x1, top) == [text |-> text, x0 |-> x0, x1 |-> x1, top |-> top]

\* body words: two horizontal positions, every vertical offset
PalabrasCuerpo ==
    {Palabra(<<"A">>, x, x + 4, t) : x \in {0, 10}, t \in 0..MaxTop}

RECURSIVE ListasHasta(_, _)
ListasHasta(S, n) ==
    IF n = 0 THEN {<<>>}
    ELSE ListasHasta(S, n - 1)
         \cup {Append(l, e) : l \in {m \in ListasHasta(S, n - 1) : Len(m) = n - 1},
                              e \in S}

PaginasCuerpo == ListasHasta(PalabrasCuerpo, MaxPalabras)

\* vertical offset of the upper header row
TopEncabezado == 10

\* a page with the ledger header (its words up to MaxDesnivel apart), the
\* same four labels again in a totals block sep below, and one other word
PaginaEncabezados(d, sep) ==
    <<Palabra(CARGOS, 100, 140, TopEncabezado + d[1]),
      Palabra(ABONOS, 200, 240, TopEncabezado + d[2]),
      Palabra(<<"O", "P", "E", "R", "A", "C", "I", "Ó", "N">>, 300, 360,
              TopEncabezado + d[3]),
      Palabra(<<"L", "I", "Q", "U", "I", "D", "A", "C", "I", "Ó", "N">>, 400, 470,
              TopEncabezado + d[4]),
      Palabra(<<"T", "o", "t", "a", "l">>, 20, 60, TopEncabezado + sep),
      Palabra(<<"C", "a", "r", "g", "o", "s">>, 120, 160, TopEncabezado + sep),
      Palabra(<<"A", "b", "o", "n", "o", "s">>, 220, 260, TopEncabezado + sep),
      Palabra(<<"O", "p", "e", "r", "a", "c", "i", "ó", "n">>, 320, 380,
              TopEncabezado + sep),
      Palabra(<<"L", "i", "q", "u", "i", "d", "a", "c", "i", "ó", "n">>, 420, 490,
              TopEncabezado + sep)>>

\* the word list in another order: rotated by k, and reversed
Rotar(s, k) == Lista([i \in 1..Len(s) |-> s[((i - 1 + k) % Len(s)) + 1]])

Invertir(s) == Lista([i \in 1..Len(s) |-> s[Len(s) + 1 - i]])

PaginasEncabezados ==
    LET bases == {PaginaEncabezados(d, sep) :
                      d \in [1..4 -> 0..MaxDesnivel], sep \in 1..MaxSeparacion}
    IN  UNION {{Rotar(b, k), Invertir(Rotar(b, k))} : b \in bases, k \in 0..8}

InitGeom ==
    /\ mode = "geom"
    /\ SinInterfaz
    /\ fn = ""
    /\ arg \in [words : PaginasCuerpo \cup PaginasEncabezados]
    /\ ret = None
    /\ SinExtraccion
    /\ SinLote

Llamar_agrupar_filas ==
    /\ mode = "geom" /\ fn = ""
    /\ fn' = "_agrupar_filas"
    /\ ret' = _agrupar_filas(arg.words)
    /\ UNCHANGED interfaz
    /\ UNCHANGED <<mode, arg, extraccion, lote>>

Llamar_detectar_columnas_montos ==
    /\ mode = "geom" /\ fn = ""
    /\ fn' = "_detectar_columnas_montos"
    /\ ret' = _detectar_columnas_montos(arg.words)
    /\ UNCHANGED interfaz
    /\ UNCHANGED <<mode, arg, extraccion, lote>>

NextGeom ==
    \/ Llamar_agrupar_filas
    \/ Llamar_detectar_columnas_montos

SpecGeom == InitGeom /\ [][NextGeom]_vars

----------------------------------------------------------------------------
(* Line-pattern extractor: text of a line *)

\* str.split(): the maximal runs of non-space characters of s
Split(s) ==
    LET indices == Lista([i \in 1..Len(s) |-> i])
        inicios == SelectSeq(indices, LAMBDA i :
                       s[i] \notin Espacios /\ (i = 1 \/ s[i - 1] \in Espacios))
        finales == SelectSeq(indices, LAMBDA i :
                       s[i] \notin Espacios /\ (i = Len(s) \/ s[i + 1] \in Espacios))
    IN  Lista([k \in 1..Len(inicios) |-> SubSeq(s, inicios[k], finales[k])])

\* " ".join(toks)
RECURSIVE Unir(_)
Unir(toks) ==
    IF toks = <<>> THEN <<>>
    ELSE IF Len(toks) = 1 THEN toks[1]
         ELSE toks[1] \o <<" ">> \o Unir(Tail(toks))

\* parsers/bbva_tc.py _norm_line
_norm_line(line) == Unir(Split(Strip(Reemplazar(line, NBSP, " "))))

\* m in s, for texts m and s
Subcadena(m, s) == \E i \in 1..(Len(s) - Len(m) + 1) : SubSeq(s, i, i + Len(m) - 1) = m

\* s.startswith(m)
EmpiezaCon(s, m) == Len(s) >= Len(m) /\ SubSeq(s, 1, Len(m)) = m

\* parse_movimientos: stop_markers
stop_markers ==
    {<<"T", "A", "B", "L", "A", " ", "/", " ", "G", "R", "A", "F", "I",
       "C", "O", " ", "D", "E", " ", "E", "S", "T", "A", "D", "O", " ",
       "D", "E", " ", "C", "U", "E", "N", "T", "A">>,
     <<"T", "A", "B", "L", "A", " ", "/", " ", "G", "R", "Á", "F", "I",
       "C", "O", " ", "D", "E", " ", "E", "S", "T", "A", "D", "O", " ",
       "D", "E", " ", "C", "U", "E", "N", "T", "A">>,
     <<"T", "A", "B", "L", "A", "/", "G", "R", "A", "F", "I", "C", "O",
       " ", "D", "E", " ", "E", "S", "T", "A", "D", "O", " ", "D", "E",
       " ", "C", "U", "E", "N", "T", "A">>,
     <<"T", "A", "B", "L", "A", "/", "G", "R", "Á", "F", "I", "C", "O",
       " ", "D", "E", " ", "E", "S", "T", "A", "D", "O", " ", "D", "E",
       " ", "C", "U", "E", "N", "T", "A">>}

\* parse_movimientos: skip_starts
skip_starts ==
    {<<"E", "S", "T", "A", "D", "O", " ", "D", "E", " ", "C", "U", "E",
       "N", "T", "A">>,
     <<"P", "A", "G", "I", "N", "A">>,
     <<"L", "I", "N", "E", "A", " ", "B", "B", "V", "A">>,
     <<"A", "V", ".", " ", "P", "A", "S", "E", "O">>,
     <<"B", "B", "V", "A", " ", "M", "E", "X", "I", "C", "O">>,
     <<"E", "S", "T", "I", "M", "A", "D", "O", " ", "T", "A", "R", "J",
       "E", "T", "A", "H", "A", "B", "I", "E", "N", "T", "E">>,
     <<"I", "V", "A">>,
     <<"\"", "S", "I", " ", "E", "S", "T", "A", "S", " ", "A", "D", "H",
       "E", "R", "I", "D", "O">>,
     <<"S", "I", " ", "E", "S", "T", "A", "S", " ", "A", "D", "H", "E",
       "R", "I", "D", "O">>}

FECHA == <<"F", "E", "C", "H", "A">>
AUTORIZACION == <<"A", "U", "T", "O", "R", "I", "Z", "A", "C", "I", "O", "N">>
APLICACION == <<"A", "P", "L", "I", "C", "A", "C", "I", "O", "N">>
IMPORTE == <<"I", "M", "P", "O", "R", "T", "E">>

\* re.fullmatch(r"\d{2}/\d{2}/\d{2,4}", tok)
EsFechaTC(tok) ==
    /\ Len(tok) \in 8..10
    /\ tok[1] \in Digitos /\ tok[2] \in Digitos /\ tok[3] = "/"
    /\ tok[4] \in Digitos /\ tok[5] \in Digitos /\ tok[6] = "/"
    /\ \A i \in 7..Len(tok) : tok[i] \in Digitos

\* re.fullmatch(r"[A-ZÑ&]{3}", tok)
EsRfc1(tok) == Len(tok) = 3 /\ \A i \in 1..3 : tok[i] \in Mayusculas \cup {"Ñ", "&"}

\* re.fullmatch(r"[0-9A-Z]{8,12}", tok)
EsRfc2(tok) ==
    Len(tok) \in 8..12 /\ \A i \in 1..Len(tok) : tok[i] \in Digitos \cup Mayusculas

\* re.fullmatch(r"[\*Xx\d]{4,}", tok)
EsRef(tok) ==
    Len(tok) >= 4 /\ \A i \in 1..Len(tok) : tok[i] \in Digitos \cup {"*", "X", "x"}

\* re.fullmatch(r"-?[\d,]+\.\d{2}", tok)
EsMontoTC(tok) ==
    LET c == IF tok # <<>> /\ Head(tok) = "-" THEN Tail(tok) ELSE tok
        n == Len(c)
    IN  /\ n >= 4
        /\ c[n] \in Digitos /\ c[n - 1] \in Digitos /\ c[n - 2] = "."
        /\ \A i \in 1..(n - 3) : c[i] \in Digitos \cup {","}

\* the tokens of a normalized line that spell "\$\s*<monto>" at its end: the
\* last two ("$", monto) or the last one ("$" and monto joined); 0 if neither
ColaMonto(toks) ==
    LET n == Len(toks)
    IN  IF n >= 2 /\ toks[n - 1] = <<"$">> /\ EsMontoTC(toks[n]) THEN 2
        ELSE IF n >= 1 /\ toks[n] # <<>> /\ Head(toks[n]) = "$"
                /\ EsMontoTC(Tail(toks[n])) THEN 1
             ELSE 0

MontoDe(toks) ==
    IF ColaMonto(toks) = 2 THEN toks[Len(toks)] ELSE Tail(toks[Len(toks)])

SinMatch == [ok |-> FALSE]

\* rx_con_rfc.match(line) on a normalized line: two dates, the concept (one
\* or more tokens), the tax-id pair, the reference and the amount.  The
\* pieces are separated by \s+ and hold no space, the concept apart, so the
\* match is unique and made of whole tokens.
rx_con_rfc(line) ==
    LET toks == Split(line)
        cola == ColaMonto(toks)
        n == Len(toks) - cola
    IN  IF /\ cola > 0 /\ n >= 6
           /\ EsFechaTC(toks[1]) /\ EsFechaTC(toks[2])
           /\ EsRfc1(toks[n - 2]) /\ EsRfc2(toks[n - 1]) /\ EsRef(toks[n])
        THEN [ok |-> TRUE, f1 |-> toks[1], f2 |-> toks[2],
              concepto |-> Unir(SubSeq(toks, 3, n - 3)),
              rfc1 |-> toks[n - 2], rfc2 |-> toks[n - 1], ref |-> toks[n],
              monto |-> MontoDe(toks)]
        ELSE SinMatch

\* rx_sin_rfc.match(line) on a normalized line
rx_sin_rfc(line) ==
    LET toks == Split(line)
        cola == ColaMonto(toks)
        n == Len(toks) - cola
    IN  IF /\ cola > 0 /\ n >= 4
           /\ EsFechaTC(toks[1]) /\ EsFechaTC(toks[2])
           /\ EsRef(toks[n])
        THEN [ok |-> TRUE, f1 |-> toks[1], f2 |-> toks[2],
              concepto |-> Unir(SubSeq(toks, 3, n - 1)),
              ref |-> toks[n], monto |-> MontoDe(toks)]
        ELSE SinMatch

----------------------------------------------------------------------------
(* Line-pattern extractor: dates, records and the sort *)

Dos(n) == <<DigitoChar(n \div 10), DigitoChar(n % 10)>>

Cuatro(n) == Dos(n \div 100) \o Dos(n % 100)

Bisiesto(y) == y % 4 = 0 /\ (y % 100 # 0 \/ y % 400 = 0)

DiasDelMes(m, y) ==
    IF m = 2 THEN (IF Bisiesto(y) THEN 29 ELSE 28)
    ELSE IF m \in {4, 6, 9, 11} THEN 30 ELSE 31

\* the calendar date exists and a pandas Timestamp can hold it
FechaValida(d, m, y) ==
    /\ y \in 1678..2261
    /\ m \in 1..12
    /\ d \in 1..DiasDelMes(m, y)

\* the year a year text of two to four digits denotes; two digits are read
\* in the current century up to 68
AnioDe(yy) ==
    LET v == DigitosAInt(yy)
    IN  IF Len(yy) = 2 THEN (IF v <= 68 THEN 2000 + v ELSE 1900 + v) ELSE v

\* parsers/bbva_tc.py _parse_fecha_tc, for the DD/MM/YY and DD/MM/YYYY texts
\* the two line patterns capture, read day first; texts that are a date only
\* when read month first are not among the inputs
_parse_fecha_tc(s) ==
    LET t == Strip(s)
    IN  IF t = <<>> \/ ~EsFechaTC(t) THEN NoneStr
        ELSE LET d == DigitosAInt(SubSeq(t, 1, 2))
                 m == DigitosAInt(SubSeq(t, 4, 5))
                 y == AnioDe(SubSeq(t, 7, Len(t)))
             IN  IF FechaValida(d, m, y)
                 THEN Cuatro(y) \o <<"-">> \o Dos(m) \o <<"-">> \o Dos(d)
                 ELSE NoneStr

\* a or b, for Optional[str] a
StrOr(a, b) == IF a = NoneStr \/ a = <<>> THEN b ELSE a

\* lines 174-179 of parse_movimientos: charge or credit by the sign
CargosAbonos_cero_abono(monto) ==
    IF monto.neg \/ monto.num = 0
    THEN [cargos |-> None, abonos |-> FloatAbs(monto)]
    ELSE [cargos |-> monto, abonos |-> None]

CargosAbonos(monto) ==
    IF FloatNegativo(monto)
    THEN [cargos |-> None, abonos |-> FloatAbs(monto)]
    ELSE [cargos |-> monto, abonos |-> None]

\* lines 181-186 of parse_movimientos: detalle
DetalleTC(rfc, ref) ==
    Unir((IF rfc # <<>> THEN <<<<"R", "F", "C", ":">> \o rfc>> ELSE <<>>)
         \o (IF ref # <<>> THEN <<<<"R", "E", "F", ":">> \o ref>> ELSE <<>>))

\* account, currency and file name of the document being read
cuenta == "TC"
moneda == "MXN"
origen_pdf == "estado.pdf"

\* lines 137-144 of parse_movimientos: the line is passed over before the
\* patterns are tried
Omitida_sin_importe(up) ==
    \/ \E sk \in skip_starts : EmpiezaCon(up, sk)
    \/ Subcadena(FECHA, up) /\ Subcadena(AUTORIZACION, up)
         /\ Subcadena(APLICACION, up)

Omitida(up) ==
    \/ \E sk \in skip_starts : EmpiezaCon(up, sk)
    \/ Subcadena(FECHA, up) /\ Subcadena(AUTORIZACION, up)
         /\ Subcadena(APLICACION, up)
    \/ Subcadena(IMPORTE, up)
         /\ (Subcadena(CARGOS, up) \/ Subcadena(ABONOS, up))

\* the groups lines 146-165 take from a match, with rfc as the text built
\* from rfc1 and rfc2
ConRfc(m) ==
    [ok |-> TRUE, f1 |-> m.f1, f2 |-> m.f2, concepto |-> Strip(m.concepto),
     rfc |-> Strip(Unir(<<Strip(m.rfc1), Strip(m.rfc2)>>)),
     ref |-> Strip(m.ref), monto_txt |-> Strip(m.monto)]

SinRfc(m2) ==
    [ok |-> TRUE, f1 |-> m2.f1, f2 |-> m2.f2, concepto |-> Strip(m2.concepto),
     rfc |-> <<>>, ref |-> Strip(m2.ref), monto_txt |-> Strip(m2.monto)]

\* lines 146-165 of parse_movimientos: rx_con_rfc is tried first and
\* rx_sin_rfc only when it does not match
Coincidencia_sin_rfc_primero(line) ==
    LET m == rx_con_rfc(line)
        m2 == rx_sin_rfc(line)
    IN  IF m2.ok THEN SinRfc(m2)
        ELSE IF m.ok THEN ConRfc(m)
        ELSE SinMatch

Coincidencia(line) ==
    LET m == rx_con_rfc(line)
        m2 == rx_sin_rfc(line)
    IN  IF m.ok THEN ConRfc(m)
        ELSE IF m2.ok THEN SinRfc(m2)
        ELSE SinMatch

\* the outcome of lines 126-202 for one normalized line: whether it stops
\* the document, and the records it appends (none or one)
ProcesarLineaTC(line, pagina) ==
    LET up == Upper(line)
        g == Coincidencia(line)
        monto == _limpiar_monto_tc(g.monto_txt)
        ca == CargosAbonos(monto)
    IN  IF line = <<>> THEN [stop |-> FALSE, nuevos |-> <<>>]
        ELSE IF \E mk \in stop_markers : Subcadena(mk, up)
        THEN [stop |-> TRUE, nuevos |-> <<>>]
        ELSE IF Omitida(up) \/ ~g.ok
        THEN [stop |-> FALSE, nuevos |-> <<>>]
        ELSE IF monto = None THEN [stop |-> FALSE, nuevos |-> <<>>]
        ELSE [stop |-> FALSE,
              nuevos |-> <<[fecha_operacion |-> StrOr(_parse_fecha_tc(g.f1), g.f1),
                            fecha_liquidacion |-> StrOr(_parse_fecha_tc(g.f2), g.f2),
                            codigo |-> <<>>,
                            descripcion |-> g.concepto,
                            cargos |-> ca.cargos,
                            abonos |-> ca.abonos,
                            saldo_operacion |-> None,
                            saldo_liquidacion |-> None,
                            detalle |-> DetalleTC(g.rfc, g.ref),
                            cuenta |-> cuenta,
                            moneda |-> moneda,
                            origen_pdf |-> origen_pdf,
                            pagina |-> pagina]>>]

\* pandas: a Timestamp, and NaT
Timestamp(y, m, d) == [tag |-> "Timestamp", y |-> y, m |-> m, d |-> d]
NaT == [tag |-> "NaT"]

\* the text is YYYY-MM-DD
EsISO(s) ==
    /\ Len(s) = 10 /\ s[5] = "-" /\ s[8] = "-"
    /\ \A i \in {1, 2, 3, 4, 6, 7, 9, 10} : s[i] \in Digitos

\* line 209: pd.to_datetime(column, errors="coerce") on one value of the
\* column, which holds the ISO texts and the raw DD/MM/YY texts that
\* _parse_fecha_tc could not read
to_datetime(v) ==
    IF EsISO(v)
    THEN LET y == DigitosAInt(SubSeq(v, 1, 4))
             m == DigitosAInt(SubSeq(v, 6, 7))
             d == DigitosAInt(SubSeq(v, 9, 10))
         IN  IF FechaValida(d, m, y) THEN Timestamp(y, m, d) ELSE NaT
    ELSE NaT

\* lines 207-209: the DataFrame of the records, its settlement-date column
\* converted
DataFrame(movs) ==
    Lista([i \in 1..Len(movs) |->
              [movs[i] EXCEPT !.fecha_liquidacion = to_datetime(@)]])

\* the sort key of a Timestamp or NaT under na_position="last"
ClaveFecha(ts) ==
    IF ts = NaT THEN <<1, 0>> ELSE <<0, ts.y * 10000 + ts.m * 100 + ts.d>>

\* sort_values ordering by page before settlement date
sort_values_por_pagina(d) ==
    Ordenar(d, [i \in 1..Len(d) |->
                   <<d[i].pagina>> \o ClaveFecha(d[i].fecha_liquidacion)])

\* line 210: df.sort_values(by=["fecha_liquidacion", "pagina"],
\* na_position="last").reset_index(drop=True), a stable sort
sort_values(d) ==
    Ordenar(d, Lista([i \in 1..Len(d) |->
                   ClaveFecha(d[i].fecha_liquidacion) \o <<d[i].pagina>>]))

\* lines 117-119: the page loop ends after the last page or once a stop
\* marker was read; without the test of stop_found:
FinDePaginas_sin_corte(stop, n, paginas) == n > Len(paginas)

FinDePaginas(stop, n, paginas) == n > Len(paginas) \/ stop

\* BBVATCParser.parse_movimientos is running, called alone or by the batch
EnTC == mode = "tc" \/ (mode = "lote" /\ fn = "BBVATCParser.parse_movimientos")

----------------------------------------------------------------------------
(* Line-pattern extractor: BBVATCParser.parse_movimientos on one document *)

\* largest number of lines of a generated document
MaxLineas == 3

\* largest number of pages of a generated document
MaxPaginas == 2

LineaConRfc ==
    <<"0", "8", "/", "0", "1", "/", "2", "5", " ", "0", "9", "/", "0", "1",
      "/", "2", "5", " ", "A", "M", "A", "Z", "O", "N", " ", "M", "X", " ",
      "A", "M", "E", " ", "1", "4", "0", "4", "0", "2", "7", "R", "0", " ",
      "*", "*", "*", "*", "*", "*", "7", "1", "1", "1", " ", "$", " ", "3",
      "9", "9", ".", "0", "0">>
LineaPago ==
    <<"0", "1", "/", "0", "1", "/", "2", "5", " ", " ", "0", "2", "/", "0",
      "1", "/", "2", "5", "nbsp", "P", "A", "G", "O", " ", "T", "D", "C",
      " ", "*", "*", "*", "*", "*", "*", "0", "1", "1", "0", " ", "$", " ",
      "-", "1", "2", ",", "4", "3", "2", ".", "3", "4", " ">>
LineaSinFecha ==
    <<"3", "0", "/", "0", "2", "/", "2", "5", " ", "3", "1", "/", "0", "2",
      "/", "2", "5", " ", "A", "J", "U", "S", "T", "E", " ", "X", "X", "X",
      "X", "0", "1", "1", "0", " ", "$", "0", ".", "0", "0">>
LineaUber ==
    <<"0", "7", "/", "0", "1", "/", "2", "5", " ", "0", "9", "/", "0", "1",
      "/", "2", "5", " ", "U", "B", "E", "R", " ", "*", "*", "*", "*", "7",
      "1", "1", "1", " ", "$", " ", "5", "0", ".", "0", "0">>
LineaCorte ==
    <<"T", "a", "b", "l", "a", " ", "/", " ", "G", "r", "á", "f", "i", "c",
      "o", " ", "d", "e", " ", "e", "s", "t", "a", "d", "o", " ", "d", "e",
      " ", "c", "u", "e", "n", "t", "a">>
LineaProsa ==
    <<"S", "a", "l", "d", "o", " ", "a", "n", "t", "e", "r", "i", "o", "r",
      " ", "$", " ", "1", "0", "0", ".", "0", "0">>
LineaVacia ==
    <<" ", " ">>
\* a line with the form of a record whose concept reads as a table header
LineaImporte ==
    <<"0", "8", "/", "0", "1", "/", "2", "5", " ", "0", "9", "/",
      "0", "1", "/", "2", "5", " ", "I", "M", "P", "O", "R", "T",
      "E", " ", "C", "A", "R", "G", "O", "S", " ", "*", "*", "*",
      "*", "7", "1", "1", "1", " ", "$", " ", "1", ".", "0", "0">>
\* a line with the tax-id pair right after the dates
LineaSoloRfc ==
    <<"0", "8", "/", "0", "1", "/", "2", "5", " ", "0", "9", "/",
      "0", "1", "/", "2", "5", " ", "A", "M", "E", " ", "1", "4",
      "0", "4", "0", "2", "7", "R", "0", " ", "*", "*", "*", "*",
      "*", "*", "7", "1", "1", "1", " ", "$", " ", "3", "9", "9",
      ".", "0", "0">>

VocabularioTC ==
    {LineaConRfc, LineaPago, LineaSinFecha, LineaUber, LineaCorte, LineaProsa,
     LineaVacia, LineaImporte, LineaSoloRfc}

\* the ways to cut the list l into k consecutive pages, empty pages included
RECURSIVE Cortes(_, _)
Cortes(l, k) ==
    IF k = 1 THEN {<<l>>}
    ELSE UNION {{<<SubSeq(l, 1, c)>> \o d :
                    d \in Cortes(SubSeq(l, c + 1, Len(l)), k - 1)} :
                c \in 0..Len(l)}

DocumentosTC ==
    UNION {Cortes(l, k) : l \in ListasHasta(VocabularioTC, MaxLineas),
                          k \in 1..MaxPaginas}

InitTC ==
    /\ mode = "tc"
    /\ SinInterfaz
    /\ SinLlamada
    /\ SinLote
    /\ pdf \in DocumentosTC
    /\ num_pagina = 1
    /\ idx = 0
    /\ stop_found = FALSE
    /\ movimientos = <<>>
    /\ df = <<>>
    /\ pc = "pagina"
    /\ anio = <<>> /\ col_centers = <<>> /\ filas = <<>> /\ idx_ultimo_mov = 0

\* lines 117-124: the next page is entered; a page without lines is passed
TCPagina ==
    /\ EnTC /\ pc = "pagina"
    /\ ~FinDePaginas(stop_found, num_pagina, pdf)
    /\ IF pdf[num_pagina] = <<>>
       THEN num_pagina' = num_pagina + 1 /\ UNCHANGED <<idx, pc>>
       ELSE idx' = 1 /\ pc' = "linea" /\ UNCHANGED num_pagina
    /\ UNCHANGED interfaz
    /\ UNCHANGED <<mode, llamada, pdf, stop_found, movimientos, df, posicional,
                   lote>>

\* lines 126-202: one line of the page
TCLinea ==
    /\ EnTC /\ pc = "linea"
    /\ LET r == ProcesarLineaTC(_norm_line(pdf[num_pagina][idx]), num_pagina)
       IN  /\ stop_found' = r.stop
           /\ movimientos' = movimientos \o r.nuevos
           /\ IF r.stop \/ idx = Len(pdf[num_pagina])
              THEN num_pagina' = num_pagina + 1 /\ idx' = 0 /\ pc' = "pagina"
              ELSE idx' = idx + 1 /\ UNCHANGED <<num_pagina, pc>>
    /\ UNCHANGED interfaz
    /\ UNCHANGED <<mode, llamada, pdf, df, posicional, lote>>

\* lines 204-212: after the page loop the records are sorted and returned
TCRetornar ==
    /\ EnTC /\ pc = "pagina"
    /\ FinDePaginas(stop_found, num_pagina, pdf)
    /\ df' = IF movimientos = <<>> THEN <<>>
             ELSE sort_values(DataFrame(movimientos))
    /\ pc' = "done"
    /\ UNCHANGED interfaz
    /\ UNCHANGED <<mode, llamada, pdf, num_pagina, idx, stop_found, movimientos,
                   posicional, lote>>

NextTC ==
    \/ TCPagina
    \/ TCLinea
    \/ TCRetornar

SpecTC == InitTC /\ [][NextTC]_vars

----------------------------------------------------------------------------
(* Positional extractor: one row *)

\* PATRON_FECHA.fullmatch(t): \d{2}/[A-Z]{3}
PATRON_FECHA(t) ==
    /\ Len(t) = 6
    /\ t[1] \in Digitos /\ t[2] \in Digitos /\ t[3] = "/"
    /\ t[4] \in Mayusculas /\ t[5] \in Mayusculas /\ t[6] \in Mayusculas

\* PATRON_MONTO.fullmatch(t): [\d,]+\.\d{2}
PATRON_MONTO(t) ==
    LET n == Len(t)
    IN  /\ n >= 4
        /\ t[n] \in Digitos /\ t[n - 1] \in Digitos /\ t[n - 2] = "."
        /\ \A i \in 1..(n - 3) : t[i] \in Digitos \cup {","}

\* re.fullmatch(r"\d{2}/\d{2}/\d{4}", t)
EsFechaLarga(t) ==
    /\ Len(t) = 10
    /\ t[3] = "/" /\ t[6] = "/"
    /\ \A i \in {1, 2, 4, 5, 7, 8, 9, 10} : t[i] \in Digitos

\* parsers/bbva.py BBVAParser._obtener_anio_desde_portada: the year of the
\* first "DEL dd/dd/dddd AL dd/dd/dddd" of the text, whose pieces \s+ keeps
\* in consecutive tokens
_obtener_anio_desde_portada(texto) ==
    LET toks == Split(texto)
        aqui(i) ==
            /\ Len(toks[i]) >= 3
            /\ SubSeq(toks[i], Len(toks[i]) - 2, Len(toks[i])) = <<"D", "E", "L">>
            /\ EsFechaLarga(toks[i + 1])
            /\ toks[i + 2] = <<"A", "L">>
            /\ Len(toks[i + 3]) >= 10 /\ EsFechaLarga(SubSeq(toks[i + 3], 1, 10))
    IN  IF \E i \in 1..(Len(toks) - 3) : aqui(i)
        THEN LET i == CHOOSE j \in 1..(Len(toks) - 3) :
                          aqui(j) /\ \A l \in 1..(j - 1) : ~aqui(l)
             IN  SubSeq(toks[i + 1], 7, 10)
        ELSE NoneStr

\* line 304 with the last of the nearest columns taken
_columna_por_x_ultimo(x, centers) ==
    LET i == CHOOSE j \in 1..Len(centers) :
                 /\ \A l \in 1..Len(centers) :
                       Abs(x - centers[j].v) <= Abs(x - centers[l].v)
                 /\ \A l \in (j + 1)..Len(centers) :
                       Abs(x - centers[l].v) > Abs(x - centers[j].v)
    IN  centers[i].k

\* parsers/bbva.py BBVAParser._columna_por_x: the first column, in the order
\* of the dict, whose centre is nearest to x
_columna_por_x(x, centers) ==
    LET i == CHOOSE j \in 1..Len(centers) :
                 /\ \A l \in 1..Len(centers) :
                       Abs(x - centers[j].v) <= Abs(x - centers[l].v)
                 /\ \A l \in 1..(j - 1) :
                       Abs(x - centers[l].v) > Abs(x - centers[j].v)
    IN  centers[i].k

TOTAL_DE_MOVIMIENTOS ==
    <<"T", "O", "T", "A", "L", " ", "D", "E", " ", "M", "O", "V", "I", "M",
      "I", "E", "N", "T", "O", "S">>
TOTAL_MOVIMIENTOS ==
    <<"T", "O", "T", "A", "L", " ", "M", "O", "V", "I", "M", "I", "E", "N",
      "T", "O", "S">>
FECHA_SALDO ==
    <<"F", "E", "C", "H", "A", " ", "S", "A", "L", "D", "O">>

\* " ".join(w["text"] for w in fila).strip()
TextoFila(fila) == Strip(Unir(Lista([i \in 1..Len(fila) |-> fila[i].text])))

\* line 123 without the upper-casing of the row text
EsTotal_sin_mayusculas(fila) ==
    LET u == TextoFila(fila)
    IN  Subcadena(TOTAL_DE_MOVIMIENTOS, u) \/ Subcadena(TOTAL_MOVIMIENTOS, u)

\* line 123: the row ends the page
EsTotal(fila) ==
    LET u == Upper(TextoFila(fila))
    IN  Subcadena(TOTAL_DE_MOVIMIENTOS, u) \/ Subcadena(TOTAL_MOVIMIENTOS, u)

\* line 128: the indexes of the date tokens of the row, in order
IdxFechas(fila) ==
    LET pos == {i \in 1..Len(fila) : PATRON_FECHA(fila[i].text)}
        menor(S) == CHOOSE i \in S : \A j \in S : i <= j
    IN  IF Cardinality(pos) >= 2
        THEN <<menor(pos), menor(pos \ {menor(pos)})>>
        ELSE IF pos # {} THEN <<menor(pos)>> ELSE <<>>

\* line 129: len(idx_fechas) >= 2
EsMovimiento(fila) ==
    Cardinality({i \in 1..Len(fila) : PATRON_FECHA(fila[i].text)}) >= 2

\* lines 156-172: the last amount of the row assigned to column col, or None
MontoEnColumna(fila, centers, col) ==
    LET hits == {i \in 1..Len(fila) :
                    /\ PATRON_MONTO(fila[i].text)
                    /\ _columna_por_x(Centro2(fila[i]), centers) = col}
    IN  IF hits = {} THEN None
        ELSE _limpiar_monto(fila[CHOOSE i \in hits : \A j \in hits : j <= i].text)

\* lines 130-188: the record of a transaction-start row
RegistroPos(fila, centers, an, pagina) ==
    LET i1 == IdxFechas(fila)[1]
        i2 == IdxFechas(fila)[2]
        fecha_op_raw == fila[i1].text
        fecha_liq_raw == fila[i2].text
        codigo == IF Len(fila) > i2 THEN fila[i2 + 1].text ELSE <<>>
        x_cargos == DictGet(centers, CARGOS)
        desc_words ==
            SelectSeq(fila, LAMBDA w :
                /\ ~(Centro2(w) >= x_cargos)
                /\ w.text \notin {fecha_op_raw, fecha_liq_raw, codigo})
    IN  [fecha_operacion |-> _parse_fecha(fecha_op_raw, an),
         fecha_liquidacion |-> _parse_fecha(fecha_liq_raw, an),
         codigo |-> codigo,
         descripcion |->
             Strip(Unir(Lista([i \in 1..Len(desc_words) |-> desc_words[i].text]))),
         cargos |-> MontoEnColumna(fila, centers, CARGOS),
         abonos |-> MontoEnColumna(fila, centers, ABONOS),
         saldo_operacion |-> MontoEnColumna(fila, centers, OPERACION),
         saldo_liquidacion |-> MontoEnColumna(fila, centers, LIQUIDACION),
         detalle |-> <<>>,
         cuenta |-> cuenta,
         moneda |-> moneda,
         origen_pdf |-> origen_pdf,
         pagina |-> pagina]

\* lines 193-199 with the text of the row put in place of the detail
ConDetalle_reemplaza(movs, n, extra) ==
    IF extra # <<>> /\ ~EmpiezaCon(extra, FECHA_SALDO)
    THEN [movs EXCEPT ![n].detalle = extra]
    ELSE movs

\* lines 193-199 with the rows that start with FECHA SALDO joined as well
ConDetalle_con_fecha_saldo(movs, n, extra) ==
    IF extra # <<>>
    THEN [movs EXCEPT ![n].detalle =
              IF @ # <<>> THEN @ \o <<" ", "|", " ">> \o extra ELSE extra]
    ELSE movs

\* lines 193-199: the text of a row joined to the detail of record n
ConDetalle(movs, n, extra) ==
    IF extra # <<>> /\ ~EmpiezaCon(extra, FECHA_SALDO)
    THEN [movs EXCEPT ![n].detalle =
              IF @ # <<>> THEN @ \o <<" ", "|", " ">> \o extra ELSE extra]
    ELSE movs

\* line 113: the open transaction when the rows of a page are entered; kept
\* from the page before:
IdxAlEntrar_continuo(previo) == previo

IdxAlEntrar(previo) == 0

----------------------------------------------------------------------------
(* Positional extractor: parse_movimientos over the documents *)

MaxFilas == 3

\* the header row of a ledger page
FilaEncabezado(top) ==
    <<Palabra(<<"C", "A", "R", "G", "O", "S">>, 90, 110, top),
      Palabra(<<"A", "B", "O", "N", "O", "S">>, 190, 210, top),
      Palabra(<<"O", "P", "E", "R", "A", "C", "I", "Ó", "N">>, 290, 310, top),
      Palabra(<<"L", "I", "Q", "U", "I", "D", "A", "C", "I", "Ó", "N">>, 390,
              410, top)>>

\* a charge, its amounts one unit lower than its dates
FilaCompra(top) ==
    <<Palabra(<<"0", "1", "/", "J", "U", "L">>, 0, 10, top),
      Palabra(<<"0", "2", "/", "J", "U", "L">>, 12, 22, top),
      Palabra(<<"A", "1">>, 24, 28, top),
      Palabra(<<"C", "O", "F", "F", "E", "E">>, 30, 42, top),
      Palabra(<<"S", "H", "O", "P">>, 44, 52, top),
      Palabra(<<"4", "5", ".", "0", "0">>, 96, 106, top + 1),
      Palabra(<<"1", ",", "0", "0", "0", ".", "0", "0">>, 294, 308, top + 1)>>

\* a credit
FilaDeposito(top) ==
    <<Palabra(<<"0", "3", "/", "J", "U", "L">>, 0, 10, top),
      Palabra(<<"0", "3", "/", "J", "U", "L">>, 12, 22, top),
      Palabra(<<"T", "1", "7">>, 24, 30, top),
      Palabra(<<"S", "P", "E", "I">>, 32, 40, top),
      Palabra(<<"2", ",", "5", "0", "0", ".", "0", "0">>, 190, 212, top)>>

\* a row without dates
FilaDetalle(top) ==
    <<Palabra(<<"R", "E", "F">>, 30, 36, top),
      Palabra(<<"0", "0", "1", "2", "3", "4", "5">>, 38, 52, top)>>

\* a row with one date
FilaUnaFecha(top) ==
    <<Palabra(<<"0", "5", "/", "J", "U", "L">>, 0, 10, top),
      Palabra(<<"P", "E", "N", "D", "I", "E", "N", "T", "E">>, 30, 48, top)>>

\* a balance row
FilaFechaSaldo(top) ==
    <<Palabra(<<"F", "E", "C", "H", "A">>, 0, 10, top),
      Palabra(<<"S", "A", "L", "D", "O">>, 12, 22, top),
      Palabra(<<"1", ",", "0", "0", "0", ".", "0", "0">>, 294, 308, top)>>

\* the totals row that closes a ledger page
FilaTotal(top) ==
    <<Palabra(<<"T", "o", "t", "a", "l">>, 0, 10, top),
      Palabra(<<"d", "e">>, 12, 16, top),
      Palabra(<<"M", "o", "v", "i", "m", "i", "e", "n", "t", "o", "s">>, 18,
              40, top),
      Palabra(<<"2">>, 44, 46, top)>>

Tipos == {"compra", "deposito", "detalle", "una_fecha", "fecha_saldo", "total"}

FilaDe(tipo, top) ==
    CASE tipo = "compra" -> FilaCompra(top)
      [] tipo = "deposito" -> FilaDeposito(top)
      [] tipo = "detalle" -> FilaDetalle(top)
      [] tipo = "una_fecha" -> FilaUnaFecha(top)
      [] tipo = "fecha_saldo" -> FilaFechaSaldo(top)
      [] tipo = "total" -> FilaTotal(top)

TextoPortada ==
    <<"P", "e", "r", "i", "o", "d", "o", " ", "D", "E", "L", " ", "0", "1",
            "/", "0", "7", "/", "2", "0", "2", "4", " ", "A", "L", " ", "3",
            "1", "/", "0", "7", "/", "2", "0", "2", "4">>

RECURSIVE Aplanar(_)
Aplanar(ss) == IF ss = <<>> THEN <<>> ELSE Head(ss) \o Aplanar(Tail(ss))

\* a page of a document: whether it has the header row, the types of its
\* rows, and whether it is a cover, which is the first page when it has no
\* header row
PaginaPos(enc, tipos, primera) ==
    [enc |-> enc, tipos |-> tipos, portada |-> primera /\ ~enc,
     partido |-> FALSE]

\* a header row broken in two lines, more than tol_fila apart
FilaEncabezadoPartido(top) ==
    <<Palabra(CARGOS, 90, 110, top),
      Palabra(ABONOS, 190, 210, top),
      Palabra(<<"O", "P", "E", "R", "A", "C", "I", "Ó", "N">>, 290, 310,
              top + tol_fila + 1),
      Palabra(<<"L", "I", "Q", "U", "I", "D", "A", "C", "I", "Ó", "N">>, 390,
              410, top + tol_fila + 1)>>

\* a page with the rows of the types tipos under a broken header row
PaginaPartida(tipos) ==
    [enc |-> FALSE, tipos |-> tipos, portada |-> FALSE, partido |-> TRUE]

\* pdfplumber page.extract_words(): the words of the page in reading order,
\* its rows ten units apart
extract_words(page) ==
    (IF page.enc THEN FilaEncabezado(10)
     ELSE IF page.partido THEN FilaEncabezadoPartido(6) ELSE <<>>)
        \o Aplanar(Lista([i \in 1..Len(page.tipos) |->
                              FilaDe(page.tipos[i], 10 + 10 * i)]))

\* pdfplumber page.extract_text(): the text of the page, a cover with the
\* period of the statement
extract_text(page) ==
    LET ws == extract_words(page)
        txt == Unir(Lista([i \in 1..Len(ws) |-> ws[i].text]))
    IN  IF page.portada THEN TextoPortada \o <<" ">> \o txt ELSE txt

\* the document of the rows l cut into pages after the rows c[1] <= c[2] <=
\* ..., page i with a header row when enc[i]
DocumentoPos(l, c, enc) ==
    Lista([i \in 1..Len(enc) |->
              PaginaPos(enc[i],
                        SubSeq(l, (IF i = 1 THEN 0 ELSE c[i - 1]) + 1,
                                  IF i = Len(enc) THEN Len(l) ELSE c[i]),
                        i = 1)])

\* line 108 with the centers of the page before kept when the page has none
ColCenters_heredados(previos, centers) ==
    IF centers = NoneDict THEN previos ELSE centers

\* line 108: the centers of the page are those that its own words give
ColCenters(previos, centers) == centers

\* BBVAParser.parse_movimientos is running, called alone or by the batch
EnPos == mode = "pos" \/ (mode = "lote" /\ fn = "BBVAParser.parse_movimientos")

InitPos ==
    /\ mode = "pos"
    /\ SinInterfaz
    /\ SinLlamada
    /\ SinLote
    /\ pdf = <<>>
    /\ num_pagina = 1 /\ idx = 0 /\ stop_found = FALSE
    /\ movimientos = <<>> /\ df = <<>>
    /\ pc = "abrir"
    /\ anio = <<>> /\ col_centers = <<>> /\ filas = <<>> /\ idx_ultimo_mov = 0

\* lines 95-98: the document is opened and the year is read from its first
\* page
PosAbrir ==
    /\ mode = "pos" /\ pc = "abrir"
    /\ \E l \in ListasHasta(Tipos, MaxFilas), k \in 1..MaxPaginas :
          \E c \in [1..(k - 1) -> 0..Len(l)], enc \in [1..k -> BOOLEAN],
             partida \in BOOLEAN :
             LET doc == IF partida /\ ~enc[1]
                        THEN [DocumentoPos(l, c, enc) EXCEPT
                                  ![1] = PaginaPartida(@.tipos)]
                        ELSE DocumentoPos(l, c, enc)
             IN  /\ \A i \in 1..(k - 2) : c[i] <= c[i + 1]
                 /\ pdf' = doc
                 /\ anio' = _obtener_anio_desde_portada(extract_text(doc[1]))
    /\ pc' = "pagina"
    /\ UNCHANGED interfaz
    /\ UNCHANGED <<mode, llamada, num_pagina, idx, stop_found, movimientos, df,
                   col_centers, filas, idx_ultimo_mov, lote>>

\* lines 101-113: the next page is entered; a cover and a page without the
\* four headers are passed over
PosPagina ==
    /\ EnPos /\ pc = "pagina" /\ num_pagina <= Len(pdf)
    /\ LET page == pdf[num_pagina]
           txt == Upper(extract_text(page))
           words == extract_words(page)
           centers == ColCenters(col_centers, _detectar_columnas_montos(words))
       IN  IF num_pagina = 1 /\ (~Subcadena(CARGOS, txt) \/ ~Subcadena(ABONOS, txt))
           THEN /\ num_pagina' = num_pagina + 1
                /\ UNCHANGED <<col_centers, filas, idx_ultimo_mov, idx, pc>>
           ELSE IF centers = NoneDict
           THEN /\ col_centers' = centers
                /\ num_pagina' = num_pagina + 1
                /\ UNCHANGED <<filas, idx_ultimo_mov, idx, pc>>
           ELSE /\ col_centers' = centers
                /\ filas' = _agrupar_filas(words)
                /\ idx_ultimo_mov' = IdxAlEntrar(idx_ultimo_mov)
                /\ IF filas' = <<>>
                   THEN num_pagina' = num_pagina + 1 /\ UNCHANGED <<idx, pc>>
                   ELSE idx' = 1 /\ pc' = "fila" /\ UNCHANGED num_pagina
    /\ UNCHANGED interfaz
    /\ UNCHANGED <<mode, llamada, pdf, stop_found, movimientos, df, anio, lote>>

\* lines 115-199: one row of the page
PosFila ==
    /\ EnPos /\ pc = "fila"
    /\ LET fila == filas[idx]
           texto_fila == TextoFila(fila)
           corte == texto_fila # <<>> /\ EsTotal(fila)
       IN  /\ IF texto_fila = <<>> \/ corte
              THEN UNCHANGED <<movimientos, idx_ultimo_mov>>
              ELSE IF EsMovimiento(fila)
              THEN /\ movimientos' = Append(movimientos,
                          RegistroPos(fila, col_centers, anio, num_pagina))
                   /\ idx_ultimo_mov' = Len(movimientos')
              ELSE /\ movimientos' =
                          IF idx_ultimo_mov # 0
                          THEN ConDetalle(movimientos, idx_ultimo_mov, texto_fila)
                          ELSE movimientos
                   /\ UNCHANGED idx_ultimo_mov
           /\ IF corte \/ idx = Len(filas)
              THEN num_pagina' = num_pagina + 1 /\ pc' = "pagina" /\ UNCHANGED idx
              ELSE idx' = idx + 1 /\ UNCHANGED <<num_pagina, pc>>
    /\ UNCHANGED interfaz
    /\ UNCHANGED <<mode, llamada, pdf, stop_found, df, anio, col_centers, filas,
                   lote>>

\* lines 201-204: the records are returned as they were appended
PosRetornar ==
    /\ EnPos /\ pc = "pagina" /\ num_pagina > Len(pdf)
    /\ df' = movimientos
    /\ pc' = "done"
    /\ UNCHANGED interfaz
    /\ UNCHANGED <<mode, llamada, pdf, num_pagina, idx, stop_found, movimientos,
                   posicional, lote>>

NextPos ==
    \/ PosAbrir
    \/ PosPagina
    \/ PosFila
    \/ PosRetornar

SpecPos == InitPos /\ [][NextPos]_vars

----------------------------------------------------------------------------
(* Positional extractor: the fields of one transaction-start row *)

MaxLibres == 2

\* a header row with the credits column left of the charges column
FilaEncabezadoInvertido(top) ==
    <<Palabra(ABONOS, 90, 110, top),
      Palabra(CARGOS, 190, 210, top),
      Palabra(<<"O", "P", "E", "R", "A", "C", "I", "Ó", "N">>, 290, 310, top),
      Palabra(<<"L", "I", "Q", "U", "I", "D", "A", "C", "I", "Ó", "N">>, 390,
              410, top)>>

Encabezados == {FilaEncabezado(10), FilaEncabezadoInvertido(10)}

\* the words that a row can have besides its two dates: a third date, a
\* code, a word of the description and an amount left of every column, a
\* word and an amount on the centre of the first column, amounts half way
\* between the first two columns, and an amount right of the last column
PalabrasLibres ==
    {Palabra(<<"0", "1", "/", "J", "U", "L">>, 30, 42, 20),
     Palabra(<<"A", "1">>, 30, 42, 20),
     Palabra(<<"P", "A", "G", "O">>, 30, 42, 20),
     Palabra(<<"4", "5", ".", "0", "0">>, 30, 42, 20),
     Palabra(<<"P", "A", "G", "O">>, 96, 104, 20),
     Palabra(<<"4", "5", ".", "0", "0">>, 96, 104, 20),
     Palabra(<<"4", "5", ".", "0", "0">>, 146, 154, 20),
     Palabra(<<"7", ".", "5", "0">>, 146, 154, 20),
     Palabra(<<"7", ".", "5", "0">>, 440, 460, 20)}

\* the list s with the word w put in as its i-th element
Insertar(s, i, w) == SubSeq(s, 1, i - 1) \o <<w>> \o SubSeq(s, i, Len(s))

\* the rows: two date tokens put among up to MaxLibres other words
FilasConFechas ==
    UNION {{Insertar(Insertar(libres, i, Palabra(<<"0", "1", "/", "J", "U", "L">>, 0, 10, 20)),
                     j, Palabra(<<"0", "2", "/", "J", "U", "L">>, 12, 22, 20)) :
               i \in 1..(Len(libres) + 1), j \in 1..(Len(libres) + 2)} :
           libres \in ListasHasta(PalabrasLibres, MaxLibres)}

InitFila ==
    /\ mode = "fila"
    /\ SinInterfaz
    /\ fn = "" /\ ret = <<>>
    /\ arg \in [fila : FilasConFechas, encabezado : Encabezados]
    /\ SinExtraccion
    /\ SinLote

\* lines 108-189 on one row of a page: the centers of the header row are
\* resolved and the record of the row is built
FilaRegistrar ==
    /\ mode = "fila" /\ fn = ""
    /\ EsMovimiento(arg.fila)
    /\ fn' = "BBVAParser.parse_movimientos"
    /\ ret' = RegistroPos(arg.fila,
                          _detectar_columnas_montos(arg.encabezado),
                          <<"2", "0", "2", "4">>, 1)
    /\ UNCHANGED interfaz
    /\ UNCHANGED <<mode, arg, extraccion, lote>>

NextFila == FilaRegistrar

SpecFila == InitFila /\ [][NextFila]_vars

----------------------------------------------------------------------------
(* Strategy detector: core/detector_banco.py *)

Minusculas == {"a", "b", "c", "d", "e", "f", "g", "h", "i", "j", "k", "l", "m",
               "n", "o", "p", "q", "r", "s", "t", "u", "v", "w", "x", "y", "z"}

\* the characters that \w matches
CaracteresDePalabra ==
    Digitos \cup Mayusculas \cup Minusculas
        \cup {"_", "Ñ", "Á", "É", "Í", "Ó", "Ú", "ñ", "á", "é", "í", "ó", "ú"}

\* \b holds in s before position i (after the end when i = Len(s) + 1)
Borde(s, i) ==
    (i > 1 /\ s[i - 1] \in CaracteresDePalabra)
        # (i <= Len(s) /\ s[i] \in CaracteresDePalabra)

\* re.search(r"\bp\b", s) finds a match
BuscarPalabra(p, s) ==
    \E i \in 1..(Len(s) - Len(p) + 1) :
        /\ SubSeq(s, i, i + Len(p) - 1) = p
        /\ Borde(s, i) /\ Borde(s, i + Len(p))

\* the separators that _nombre_indica_tc turns into spaces
Separadores == {"_", "-", ".", "(", ")", "[", "]", "{", "}"}

\* _nombre_indica_tc: patrones, CR[EÉ]DITO written out
patrones ==
    {<<"T", "C">>, <<"T", "D", "C">>,
     <<"T", "A", "R", "J", "E", "T", "A">>,
     <<"C", "R", "E", "D", "I", "T", "O">>,
     <<"C", "R", "É", "D", "I", "T", "O">>}

\* core/detector_banco.py _nombre_indica_tc: every run of separators and then
\* every run of spaces becomes one space, the ends are stripped
_nombre_indica_tc(nombre_archivo) ==
    LET u == Upper(nombre_archivo)
        sp == Lista([i \in 1..Len(u) |-> IF u[i] \in Separadores THEN " " ELSE u[i]])
        n == Unir(Split(sp))
    IN  \E q \in patrones : BuscarPalabra(q, n)

\* no key text at all
claves_tc_vacia == {}

\* _es_bbva_tc_por_contenido: claves_tc
claves_tc ==
    {<<"T", "A", "R", "J", "E", "T", "A", " ", "T", "I", "T", "U", "L",
       "A", "R">>,
     <<"M", "O", "V", "I", "M", "I", "E", "N", "T", "O", "S", " ", "E",
       "F", "E", "C", "T", "U", "A", "D", "O", "S">>,
     <<"I", "M", "P", "O", "R", "T", "E", " ", "C", "A", "R", "G", "O",
       "S">>,
     <<"I", "M", "P", "O", "R", "T", "E", " ", "A", "B", "O", "N", "O",
       "S">>,
     <<"T", " ", "N", "E", "G", "O", "C", "I", "O">>,
     <<"T", " ", "N", "E", "G", "O", "C", "I", "O", " ", "/", " ", "L",
       "C", "D", "I", "G", "I", "T", "A", "L">>}

\* core/detector_banco.py _es_bbva_tc_por_contenido; doc is what pdfplumber
\* finds at the path: whether it opens, and the texts of its pages, NoneStr
\* for a page without text; every exception gives False
_es_bbva_tc_por_contenido(doc) ==
    IF ~doc.abre \/ doc.textos = <<>> THEN FALSE
    ELSE LET texto == Upper(IF doc.textos[1] = NoneStr THEN <<>> ELSE doc.textos[1])
         IN  \E k \in claves_tc : Subcadena(k, texto)

MXN == <<"M", "X", "N">>
USD == <<"U", "S", "D">>
BBVA == <<"B", "B", "V", "A">>

\* BBVAParser.__init__
BBVAParser(cuenta_por_defecto, moneda_por_defecto) ==
    [clase |-> "BBVAParser",
     nombre_banco |-> BBVA,
     tipo_producto |-> <<>>,
     cuenta_por_defecto |-> cuenta_por_defecto,
     moneda_por_defecto |->
         IF moneda_por_defecto \in {NoneStr, <<>>} THEN MXN ELSE moneda_por_defecto]

\* BBVATCParser.__init__
BBVATCParser(cuenta_por_defecto, moneda_por_defecto) ==
    [clase |-> "BBVATCParser",
     nombre_banco |-> BBVA,
     tipo_producto |-> <<"T", "C">>,
     cuenta_por_defecto |-> cuenta_por_defecto,
     moneda_por_defecto |->
         IF moneda_por_defecto \in {NoneStr, <<>>} THEN MXN ELSE moneda_por_defecto]

\* get_parser_for_file returns None
SinParser == [clase |-> "None"]

\* Path(ruta).name: what follows the last "/"
PathName(ruta) ==
    LET barras == {i \in 1..Len(ruta) : ruta[i] = "/"}
    IN  IF barras = {} THEN ruta
        ELSE SubSeq(ruta, (CHOOSE i \in barras : \A j \in barras : j <= i) + 1,
                    Len(ruta))

\* re.search(r"\b(MXN|USD)\b", nombre): group 1 of the leftmost match, or
\* NoneStr
BuscarMoneda(nombre) ==
    LET hay(i) == /\ SubSeq(nombre, i, i + 2) \in {MXN, USD}
                  /\ Borde(nombre, i) /\ Borde(nombre, i + 3)
        pos == {i \in 1..(Len(nombre) - 2) : hay(i)}
    IN  IF pos = {} THEN NoneStr
        ELSE LET i == CHOOSE j \in pos : \A l \in pos : j <= l
             IN  SubSeq(nombre, i, i + 2)

\* re.search(r"\b(\d{4})\b", nombre): group 1 of the leftmost match, or NoneStr
BuscarCuenta(nombre) ==
    LET hay(i) == /\ \A j \in i..(i + 3) : nombre[j] \in Digitos
                  /\ Borde(nombre, i) /\ Borde(nombre, i + 4)
        pos == {i \in 1..(Len(nombre) - 3) : hay(i)}
    IN  IF pos = {} THEN NoneStr
        ELSE LET i == CHOOSE j \in pos : \A l \in pos : j <= l
             IN  SubSeq(nombre, i, i + 3)

\* line 63: the parser of a credit-card statement
ParserTC == BBVATCParser(<<"T", "C">>, MXN)

\* get_parser_for_file, lines 65-75
ParserPorMetadatos(nombre) ==
    LET m_moneda == BuscarMoneda(nombre)
        m_cuenta == BuscarCuenta(nombre)
    IN  IF m_moneda # NoneStr /\ m_cuenta # NoneStr
        THEN BBVAParser(m_cuenta, m_moneda)
        ELSE BBVAParser(NoneStr, NoneStr)

\* core/detector_banco.py get_parser_for_file, as one call
get_parser_for_file(ruta, doc) ==
    LET nombre == Upper(PathName(ruta))
    IN  IF ~Subcadena(BBVA, nombre) THEN SinParser
        ELSE IF _nombre_indica_tc(nombre) \/ _es_bbva_tc_por_contenido(doc)
        THEN BBVATCParser(<<"T", "C">>, MXN)
        ELSE ParserPorMetadatos(nombre)

\* get_parser_for_file opens the document: the name has the issuer tag and
\* no marker
AbreParaDetectar(ruta) ==
    /\ Subcadena(BBVA, Upper(PathName(ruta)))
    /\ ~_nombre_indica_tc(Upper(PathName(ruta)))

----------------------------------------------------------------------------
(* Strategy detector: get_parser_for_file over file names and documents *)

MaxFichas == 3

\* the pieces of a file name
Fichas ==
    {BBVA, <<"t", "c">>, <<"c", "r", "é", "d", "i", "t", "o">>,
     <<"5", "5", "1", "6">>, <<"5", "5", "1", "6", "0">>, <<"e", "t", "c">>,
     MXN, <<"u", "s", "d">>}

\* the delimiters between the pieces of a file name
Delimitadores == {" ", "_", "-", "."}

\* the pieces joined by the delimiter d, with the extension
RECURSIVE UnirCon(_, _)
UnirCon(fichas, d) ==
    IF fichas = <<>> THEN <<>>
    ELSE IF Len(fichas) = 1 THEN fichas[1]
         ELSE fichas[1] \o <<d>> \o UnirCon(Tail(fichas), d)

NombreDe(fichas, d) == UnirCon(fichas, d) \o <<".", "p", "d", "f">>

\* what pdfplumber finds at a path: a file that does not open, a document
\* without pages, a first page without text, a credit-card statement, an
\* account statement
ContenidosPdf ==
    {[abre |-> FALSE, textos |-> <<>>],
     [abre |-> TRUE, textos |-> <<>>],
     [abre |-> TRUE, textos |-> <<NoneStr>>],
     [abre |-> TRUE, textos |-> <<
        <<"T", "a", "r", "j", "e", "t", "a", " ", "T", "i", "t", "u", "l", "a", "r", ":", " ", "X">>>>],
     [abre |-> TRUE, textos |-> <<
        <<"E", "s", "t", "a", "d", "o", " ", "d", "e", " ", "C", "u", "e", "n", "t", "a">>>>]}

InitDet ==
    /\ mode = "det"
    /\ SinInterfaz
    /\ SinLlamada
    /\ SinExtraccion
    /\ SinLote

\* get_parser_for_file, lines 57-62: the name is looked at; the content is
\* sniffed next only when the name has the issuer tag and no marker
DetNombre ==
    /\ mode = "det" /\ fn = ""
    /\ fn' = "get_parser_for_file"
    /\ \E fichas \in ListasHasta(Fichas, MaxFichas) \ {<<>>}, d \in Delimitadores,
          doc \in ContenidosPdf :
          LET ruta == NombreDe(fichas, d)
              nombre == Upper(PathName(ruta))
          IN  /\ arg' = [ruta |-> ruta, doc |-> doc]
              /\ IF ~Subcadena(BBVA, nombre)
                 THEN ret' = SinParser /\ pc' = "done"
                 ELSE IF _nombre_indica_tc(nombre)
                 THEN ret' = ParserTC /\ pc' = "done"
                 ELSE ret' = <<>> /\ pc' = "contenido"
    /\ UNCHANGED interfaz
    /\ UNCHANGED <<mode, pdf, num_pagina, idx, stop_found, movimientos, df,
                   posicional, lote>>

\* line 62, second operand: the document is opened and its first page read
DetContenido ==
    /\ mode = "det" /\ pc = "contenido"
    /\ abiertos' = Append(abiertos, arg.ruta)
    /\ IF _es_bbva_tc_por_contenido(arg.doc)
       THEN ret' = ParserTC /\ pc' = "done"
       ELSE ret' = <<>> /\ pc' = "metadatos"
    /\ UNCHANGED interfaz
    /\ UNCHANGED <<mode, fn, arg, pdf, num_pagina, idx, stop_found, movimientos, df,
                   posicional, selected_files, i_archivo, parser, dfs, fallidos>>

\* lines 65-75: account suffix and currency of the name, or the defaults
DetMetadatos ==
    /\ mode = "det" /\ pc = "metadatos"
    /\ ret' = ParserPorMetadatos(Upper(PathName(arg.ruta)))
    /\ pc' = "done"
    /\ UNCHANGED interfaz
    /\ UNCHANGED <<mode, fn, arg, pdf, num_pagina, idx, stop_found, movimientos, df,
                   posicional, lote>>

NextDet ==
    \/ DetNombre
    \/ DetContenido
    \/ DetMetadatos

SpecDet == InitDet /\ [][NextDet]_vars

----------------------------------------------------------------------------
(* Batch processing: ui/ui.py BankReaderApp._procesar_archivos *)

MaxArchivos == 2

\* x or ""
OrVacio(x) == IF x = NoneStr THEN <<>> ELSE x

\* the product types that the file-name heuristics of transformers/nombres.py
\* can give for a document
TiposDeNombre == {NoneStr, <<>>, <<"t", "c">>}

\* an entry of the failure list; its fields banco, moneda, cuenta and tipo
\* come from the file-name heuristics and are left out
Fallido(ruta, error) ==
    [archivo |-> ruta, error |-> error]

\* lines 424-425: tipo_final
TipoFinal(tipo_nombre, p) ==
    LET tipo_parser == Strip(Upper(p.tipo_producto))
    IN  IF Strip(Upper(OrVacio(tipo_nombre))) = <<"T", "C">> THEN <<"T", "C">>
        ELSE IF tipo_parser # <<>> THEN tipo_parser ELSE OrVacio(tipo_nombre)

\* lines 447-461: the columns banco and tipo_producto are set on every
\* record; the column cuenta, which normalizar_cuenta of the file-name
\* heuristics rewrites, is kept as the extractor gave it
ConColumnas(d, banco, tipo_final) ==
    Lista([n \in 1..Len(d) |->
              [banco |-> banco, tipo_producto |-> tipo_final] @@ d[n]])

\* pd.concat(dfs, ignore_index=True)
Concat(ds) == Aplanar(ds)

\* a document that pdfplumber cannot open
DocIlegible == [abre |-> FALSE]

\* a document of text lines, page by page
DocLineas(paginas) ==
    [abre |-> TRUE,
     textos |-> Lista([n \in 1..Len(paginas) |-> UnirCon(paginas[n], "\n")]),
     lineas |-> paginas]

\* a document of positioned words, page by page
DocLayout(paginas) ==
    [abre |-> TRUE,
     textos |-> Lista([n \in 1..Len(paginas) |-> extract_text(paginas[n])]),
     layout |-> paginas]

LineaTitular ==
    <<"T", "a", "r", "j", "e", "t", "a", " ", "T", "i", "t", "u", "l", "a", "r", ":", " ", "X">>

\* the documents that can be selected: a file of another issuer, a
\* credit-card statement, one that does not open, an account statement, one
\* without pages, one with only a cover, and a credit-card statement that
\* only its content gives away
Archivos ==
    {[ruta |-> <<"o", "t", "r", "o", ".", "p", "d", "f">>,
      doc |-> DocIlegible],
     [ruta |-> <<"B", "B", "V", "A", " ", "T", "C", ".", "p", "d", "f">>,
      doc |-> DocLineas(<< <<LineaPago, LineaUber>> >>)],
     [ruta |-> <<"B", "B", "V", "A", " ", "T", "C", " ", "2", ".", "p", "d", "f">>,
      doc |-> DocIlegible],
     [ruta |-> <<"B", "B", "V", "A", " ", "5", "5", "1", "6", " ", "M", "X", "N", ".", "p", "d", "f">>,
      doc |-> DocLayout(<<PaginaPos(FALSE, <<>>, TRUE),
                          PaginaPos(TRUE, <<"compra", "detalle">>, FALSE)>>)],
     [ruta |-> <<"B", "B", "V", "A", " ", "0", "1", "1", "0", " ", "U", "S", "D", ".", "p", "d", "f">>,
      doc |-> [abre |-> TRUE, textos |-> <<>>, layout |-> <<>>]],
     [ruta |-> <<"B", "B", "V", "A", " ", "2", ".", "p", "d", "f">>,
      doc |-> DocLayout(<<PaginaPos(FALSE, <<>>, TRUE)>>)],
     [ruta |-> <<"B", "B", "V", "A", " ", "3", ".", "p", "d", "f">>,
      doc |-> DocLineas(<< <<LineaTitular, LineaConRfc>> >>)]}

\* the selections: lists of distinct documents
Selecciones ==
    {l \in ListasHasta(Archivos, MaxArchivos) :
        l # <<>> /\ \A a, b \in 1..Len(l) : a # b => l[a] # l[b]}

\* the banks ticked in the window
BancosActivos == {<<>>, << <<"b", "b", "v", "a", " ">> >>}

InitLote ==
    /\ mode = "lote"
    /\ SinInterfaz
    /\ fn = "" /\ ret = <<>>
    /\ arg \in [bancos_activos : BancosActivos]
    /\ pdf = <<>> /\ num_pagina = 0 /\ idx = 0 /\ stop_found = FALSE
    /\ movimientos = <<>> /\ df = <<>> /\ pc = "lote"
    /\ anio = <<>> /\ col_centers = <<>> /\ filas = <<>> /\ idx_ultimo_mov = 0
    /\ abiertos = <<>>
    /\ selected_files \in Selecciones
    /\ i_archivo = 1 /\ parser = <<>> /\ dfs = <<>> /\ fallidos = <<>>

Dejar_abortando(f) ==
    /\ fallidos' = f
    /\ i_archivo' = Len(selected_files) + 1
    /\ UNCHANGED <<fn, pc, pdf, num_pagina, idx, stop_found, movimientos, df,
                   posicional>>

\* the document in turn is left behind with the failure list f
Dejar(f) ==
    /\ fallidos' = f
    /\ i_archivo' = i_archivo + 1
    /\ UNCHANGED <<fn, pc, pdf, num_pagina, idx, stop_found, movimientos, df,
                   posicional>>

\* lines 394-434: the next document: its parser is detected and, when its
\* bank is ticked, its extraction starts; the parsers open the document, the
\* positional one reads the year of its first page
LoteArchivo ==
    /\ mode = "lote" /\ pc = "lote" /\ i_archivo <= Len(selected_files)
    /\ LET ruta == selected_files[i_archivo].ruta
           doc == selected_files[i_archivo].doc
           p == get_parser_for_file(ruta, doc)
           banco == Strip(Upper(p.nombre_banco))
           bancos_activos_upper ==
               {Strip(Upper(arg.bancos_activos[n])) :
                   n \in 1..Len(arg.bancos_activos)}
       IN  /\ abiertos' = IF AbreParaDetectar(ruta) THEN Append(abiertos, ruta)
                          ELSE abiertos
           /\ parser' = p
           /\ IF p = SinParser
              THEN Dejar(Append(fallidos,
                      Fallido(ruta, "No se encontró parser compatible.")))
              ELSE IF banco \notin bancos_activos_upper
              THEN Dejar(fallidos)
              ELSE IF ~doc.abre
              THEN Dejar(Append(fallidos,
                      Fallido(ruta, "PDFSyntaxError: No /Root object!")))
              ELSE IF p.clase = "BBVATCParser"
              THEN /\ fn' = "BBVATCParser.parse_movimientos"
                   /\ pdf' = doc.lineas
                   /\ num_pagina' = 1 /\ idx' = 0 /\ stop_found' = FALSE
                   /\ movimientos' = <<>> /\ df' = <<>> /\ pc' = "pagina"
                   /\ UNCHANGED <<posicional, fallidos, i_archivo>>
              ELSE IF doc.layout = <<>>
              THEN Dejar(Append(fallidos,
                      Fallido(ruta, "IndexError: list index out of range")))
              ELSE /\ fn' = "BBVAParser.parse_movimientos"
                   /\ pdf' = doc.layout
                   /\ anio' = _obtener_anio_desde_portada(extract_text(doc.layout[1]))
                   /\ num_pagina' = 1 /\ idx' = 0
                   /\ movimientos' = <<>> /\ df' = <<>> /\ pc' = "pagina"
                   /\ col_centers' = <<>> /\ filas' = <<>> /\ idx_ultimo_mov' = 0
                   /\ UNCHANGED <<stop_found, fallidos, i_archivo>>
    /\ UNCHANGED interfaz
    /\ UNCHANGED <<mode, arg, ret, selected_files, dfs>>

\* lines 434-466: the DataFrame of the document is taken: an empty one is a
\* failure; the others get their columns and are saved, and a save that
\* raises is a failure
LoteRecoger ==
    /\ mode = "lote" /\ pc = "done"
    /\ LET ruta == selected_files[i_archivo].ruta
           banco == Strip(Upper(parser.nombre_banco))
       IN  IF df = <<>>
           THEN /\ fallidos' = Append(fallidos, Fallido(ruta, "df vacío"))
                /\ UNCHANGED dfs
           ELSE \E guardado \in BOOLEAN, tipo_nombre \in TiposDeNombre :
                   IF guardado
                   THEN /\ dfs' = Append(dfs,
                                ConColumnas(df, banco,
                                            TipoFinal(tipo_nombre, parser)))
                        /\ UNCHANGED fallidos
                   ELSE /\ fallidos' = Append(fallidos,
                                Fallido(ruta,
                                        "OperationalError: database is locked"))
                        /\ UNCHANGED dfs
    /\ i_archivo' = i_archivo + 1
    /\ pc' = "lote" /\ fn' = ""
    /\ UNCHANGED interfaz
    /\ UNCHANGED <<mode, arg, ret, pdf, num_pagina, idx, stop_found, movimientos, df,
                   posicional, abiertos, selected_files, parser>>

\* lines 476-481: the DataFrames are joined and returned with the failures
LoteRetornar ==
    /\ mode = "lote" /\ pc = "lote" /\ i_archivo > Len(selected_files)
    /\ ret' = [df_total |-> Concat(dfs), fallidos |-> fallidos]
    /\ pc' = "fin"
    /\ UNCHANGED interfaz
    /\ UNCHANGED <<mode, fn, arg, pdf, num_pagina, idx, stop_found, movimientos, df,
                   posicional, lote>>

NextLote ==
    \/ LoteArchivo
    \/ TCPagina
    \/ TCLinea
    \/ TCRetornar
    \/ PosPagina
    \/ PosFila
    \/ PosRetornar
    \/ LoteRecoger
    \/ LoteRetornar

SpecLote == InitLote /\ [][NextLote]_vars

----------------------------------------------------------------------------
(* The window: ui/ui.py BankReaderApp, its message pump and export workers *)

\* the clicks on the export button in a behaviour
MaxExportaciones == 2

\* the accounts found by an export
MaxCuentas == 1

\* a message of a worker: its kind and the parts of its payload that are
\* read; de is the worker that put it
Mensaje(kind, de, cta, generados, df_total_len) ==
    [kind |-> kind, de |-> de, cuenta |-> cta, generados |-> generados,
     df_total_len |-> df_total_len]

STATUS(de) == Mensaje("STATUS", de, 0, 0, 0)

ASK_SAVE(de, cta) == Mensaje("ASK_SAVE", de, cta, 0, 0)

MSG_ERROR(de) == Mensaje("MSG_ERROR", de, 0, 0, 0)

DONE(de, generados, df_total_len) ==
    Mensaje("DONE", de, 0, generados, df_total_len)

\* what filedialog.asksaveasfilename returns: a path, or "" when the dialog
\* is cancelled
Rutas == {"", "salida.xlsx"}

\* a reply in _save_reply_q: the path; para is the request it answers, the
\* worker and the account of the ASK_SAVE message
Respuesta(ruta, de, cta) == [ruta |-> ruta, para |-> <<de, cta>>]

\* a worker thread: its position in _exportar_excel_worker, the number of
\* accounts of df_total, the account in turn, the length of generados, and
\* the requests answered by the replies it has taken
Hilo(lugar, cuentas, i, generados, recibidas) ==
    [pc |-> lugar, cuentas |-> cuentas, i |-> i, generados |-> generados,
     recibidas |-> recibidas]

NombreUI == <<"B", "B", "V", "A", " ", "T", "C", ".", "p", "d", "f">>

\* the selections of the window: none, or one document
SeleccionesUI ==
    {<<>>} \cup {<<a>> : a \in {x \in Archivos : x.ruta = NombreUI}}

\* lines 45-90, __init__: the temporary database of an earlier run is
\* deleted, the queues are empty and the first poll is scheduled
InitUI ==
    /\ mode = "ui"
    /\ SinLlamada
    /\ SinExtraccion
    /\ abiertos = <<>> /\ i_archivo = 0 /\ parser = <<>> /\ dfs = <<>>
    /\ fallidos = <<>>
    /\ selected_files \in SeleccionesUI
    /\ _ui_queue = <<>>
    /\ _save_reply_q = <<>>
    /\ sondeo = "programado"
    /\ hilos = <<>>
    /\ db_path = {}

EnUI == mode = "ui"

\* what the actions of the window leave alone
FueraDeLaInterfaz ==
    UNCHANGED <<mode, llamada, extraccion, abiertos, selected_files, i_archivo,
                parser, dfs, fallidos>>

\* lines 182-198, on_exportar_excel: a handler of the main loop, which runs
\* when no other callback of the main loop does; with files and banks
\* selected it starts a worker thread
on_exportar_excel ==
    /\ EnUI /\ sondeo # "corriendo"
    /\ Len(hilos) < MaxExportaciones
    /\ selected_files # <<>>
    /\ \E bancos_activos \in BancosActivos :
          /\ bancos_activos # <<>>
          /\ hilos' = Append(hilos, Hilo("borrar", 0, 0, 0, <<>>))
    /\ UNCHANGED <<_ui_queue, _save_reply_q, sondeo, db_path>>
    /\ FueraDeLaInterfaz

\* the worker w goes on to the account after the one in turn, or to the
\* final message
Siguiente(h) ==
    IF h.i < h.cuentas
    THEN [h EXCEPT !.pc = "cuenta", !.i = @ + 1]
    ELSE [h EXCEPT !.pc = "done"]

\* lines 206-211: the worker deletes the temporary database
WorkerBorrar(w) ==
    /\ hilos[w].pc = "borrar"
    /\ db_path' = {}
    /\ hilos' = [hilos EXCEPT ![w].pc = "status"]
    /\ UNCHANGED <<_ui_queue, _save_reply_q, sondeo>>

\* line 213: the first status message
WorkerStatus(w) ==
    /\ hilos[w].pc = "status"
    /\ _ui_queue' = Append(_ui_queue, STATUS(w))
    /\ hilos' = [hilos EXCEPT ![w].pc = "procesar"]
    /\ UNCHANGED <<_save_reply_q, sondeo, db_path>>

\* lines 214-237: the documents are read, which saves the records of each
\* in the temporary database; without records the worker ends with DONE,
\* otherwise it finds the accounts; an exception leads to the handler
WorkerProcesar(w) ==
    /\ hilos[w].pc = "procesar"
    /\ \/ /\ _ui_queue' = Append(_ui_queue, DONE(w, 0, 0))
          /\ hilos' = [hilos EXCEPT ![w].pc = "fin"]
          /\ UNCHANGED db_path
       \/ /\ \E n \in 1..MaxCuentas :
                hilos' = [hilos EXCEPT ![w] = Hilo("cuenta", n, 1, 0, <<>>)]
          /\ db_path' = db_path \cup {w}
          /\ UNCHANGED _ui_queue
       \/ /\ hilos' = [hilos EXCEPT ![w].pc = "error"]
          /\ UNCHANGED <<_ui_queue, db_path>>
    /\ UNCHANGED <<_save_reply_q, sondeo>>

\* lines 239-301: the status message of the account in turn, and its
\* tables saved in the temporary database
WorkerCuenta(w) ==
    /\ hilos[w].pc = "cuenta"
    /\ _ui_queue' = Append(_ui_queue, STATUS(w))
    /\ \/ /\ db_path' = db_path \cup {w}
          /\ hilos' = [hilos EXCEPT ![w].pc = "preguntar"]
       \/ /\ hilos' = [hilos EXCEPT ![w].pc = "error"]
          /\ UNCHANGED db_path
    /\ UNCHANGED <<_save_reply_q, sondeo>>

\* line 303: the worker asks for the path of the account in turn
WorkerPreguntar(w) ==
    /\ hilos[w].pc = "preguntar"
    /\ _ui_queue' = Append(_ui_queue, ASK_SAVE(w, hilos[w].i))
    /\ hilos' = [hilos EXCEPT ![w].pc = "esperar"]
    /\ UNCHANGED <<_save_reply_q, sondeo, db_path>>

\* lines 304-366: the worker blocks in _save_reply_q.get() and takes the
\* first reply there is; without a path the account is cancelled; with one
\* the file is written, or it cannot be replaced and the account is
\* cancelled with an error message, or an exception leads to the handler
WorkerRecibir(w) ==
    /\ hilos[w].pc = "esperar"
    /\ _save_reply_q # <<>>
    /\ _save_reply_q' = Tail(_save_reply_q)
    /\ LET ruta_excel == Head(_save_reply_q).ruta
           h == [hilos[w] EXCEPT
                    !.recibidas = Append(@, Head(_save_reply_q).para)]
       IN  IF ruta_excel = ""
           THEN /\ hilos' = [hilos EXCEPT ![w] = Siguiente(h)]
                /\ UNCHANGED _ui_queue
           ELSE \/ /\ hilos' = [hilos EXCEPT ![w] =
                                   Siguiente([h EXCEPT !.generados = @ + 1])]
                   /\ UNCHANGED _ui_queue
                \/ /\ hilos' = [hilos EXCEPT ![w] = Siguiente(h)]
                   /\ _ui_queue' = Append(_ui_queue, MSG_ERROR(w))
                \/ /\ hilos' = [hilos EXCEPT ![w] = [h EXCEPT !.pc = "error"]]
                   /\ UNCHANGED _ui_queue
    /\ UNCHANGED <<sondeo, db_path>>

\* lines 368-375: the final message, with the files generated
WorkerDone(w) ==
    /\ hilos[w].pc = "done"
    /\ _ui_queue' = Append(_ui_queue, DONE(w, hilos[w].generados, 1))
    /\ hilos' = [hilos EXCEPT ![w].pc = "fin"]
    /\ UNCHANGED <<_save_reply_q, sondeo, db_path>>

\* lines 377-380: the handler of an exception puts an error message and a
\* DONE without records
WorkerError(w) ==
    /\ hilos[w].pc = "error"
    /\ _ui_queue' = _ui_queue \o <<MSG_ERROR(w), DONE(w, hilos[w].generados, 0)>>
    /\ hilos' = [hilos EXCEPT ![w].pc = "fin"]
    /\ UNCHANGED <<_save_reply_q, sondeo, db_path>>

\* lines 203-380: a step of the worker thread w
_exportar_excel_worker(w) ==
    /\ EnUI /\ w \in 1..Len(hilos)
    /\ \/ WorkerBorrar(w)
       \/ WorkerStatus(w)
       \/ WorkerProcesar(w)
       \/ WorkerCuenta(w)
       \/ WorkerPreguntar(w)
       \/ WorkerRecibir(w)
       \/ WorkerDone(w)
       \/ WorkerError(w)
    /\ FueraDeLaInterfaz

\* the main loop runs the scheduled callback: _poll_ui_queue is entered
PollEntrar ==
    /\ EnUI /\ sondeo = "programado"
    /\ sondeo' = "corriendo"
    /\ UNCHANGED <<_ui_queue, _save_reply_q, hilos, db_path>>
    /\ FueraDeLaInterfaz

\* lines 510-525: after a DONE without records or without files generated
\* the callback returns; otherwise its loop goes on
TrasDone(payload) ==
    IF payload.df_total_len = 0 \/ payload.generados = 0
    THEN "parado"
    ELSE "corriendo"

\* lines 489-576: a message is taken and handled; the dialogs are modal and
\* are answered before the callback goes on
PollMensaje ==
    /\ EnUI /\ sondeo = "corriendo"
    /\ _ui_queue # <<>>
    /\ _ui_queue' = Tail(_ui_queue)
    /\ LET kind == Head(_ui_queue).kind
           payload == Head(_ui_queue)
       IN  CASE kind = "STATUS" -> UNCHANGED <<_save_reply_q, sondeo>>
             [] kind = "ASK_SAVE" ->
                   /\ \E ruta_excel \in Rutas :
                         _save_reply_q' = Append(_save_reply_q,
                             Respuesta(ruta_excel, payload.de, payload.cuenta))
                   /\ UNCHANGED sondeo
             [] kind = "MSG_ERROR" -> UNCHANGED <<_save_reply_q, sondeo>>
             [] kind = "DONE" ->
                   /\ sondeo' = TrasDone(payload)
                   /\ UNCHANGED _save_reply_q
    /\ UNCHANGED <<hilos, db_path>>
    /\ FueraDeLaInterfaz

\* lines 577-580: the queue is empty; the callback schedules itself again
PollVacio ==
    /\ EnUI /\ sondeo = "corriendo"
    /\ _ui_queue = <<>>
    /\ sondeo' = "programado"
    /\ UNCHANGED <<_ui_queue, _save_reply_q, hilos, db_path>>
    /\ FueraDeLaInterfaz

NextUI ==
    \/ on_exportar_excel
    \/ PollEntrar
    \/ PollMensaje
    \/ PollVacio
    \/ \E w \in 1..MaxExportaciones : _exportar_excel_worker(w)

SpecUI == InitUI /\ [][NextUI]_vars

\* the main loop runs a callback that is due, the dialogs are answered, and
\* a thread that can take a step takes it
SpecUIJusto ==
    /\ SpecUI
    /\ WF_vars(PollEntrar)
    /\ WF_vars(PollMensaje)
    /\ WF_vars(PollVacio)
    /\ \A w \in 1..MaxExportaciones : WF_vars(_exportar_excel_worker(w))

----------------------------------------------------------------------------
(* Properties of the normalizers *)

SoloDigitos(s) == \A i \in 1..Len(s) : s[i] \in Digitos

\* d{1,3},ddd.dd : comma for thousands, dot for decimals
FormaComaMilesPuntoDecimal(s) ==
    \E k \in 1..3 :
        /\ Len(s) = k + 7
        /\ SoloDigitos(SubSeq(s, 1, k))
        /\ s[k + 1] = ","
        /\ SoloDigitos(SubSeq(s, k + 2, k + 4))
        /\ s[k + 5] = "."
        /\ SoloDigitos(SubSeq(s, k + 6, k + 7))

\* d{1,3}.ddd,dd or d+,dd : dot for thousands, comma for decimals
FormaPuntoMilesComaDecimal(s) ==
    \/ \E k \in 1..3 :
        /\ Len(s) = k + 7
        /\ SoloDigitos(SubSeq(s, 1, k))
        /\ s[k + 1] = "."
        /\ SoloDigitos(SubSeq(s, k + 2, k + 4))
        /\ s[k + 5] = ","
        /\ SoloDigitos(SubSeq(s, k + 6, k + 7))
    \/ /\ Len(s) >= 4
       /\ SoloDigitos(SubSeq(s, 1, Len(s) - 3))
       /\ s[Len(s) - 2] = ","
       /\ SoloDigitos(SubSeq(s, Len(s) - 1, Len(s)))

\* the number a two-decimal amount text denotes: its digits, in hundredths
ValorDosDecimales(s) ==
    Float(FALSE, DigitosAInt(SelectSeq(s, LAMBDA c : c \in Digitos)), 2)

MontoLlamado == mode = "monto" /\ fn \in {"_limpiar_monto", "_limpiar_monto_tc"}

\* C9: both amount normalizers read a comma-thousands/dot-decimal text with
\* the commas removed and the dot as decimal separator ("1,234.56" is 1234.56),
\* and a dot-thousands/comma-decimal text with the comma as the decimal
\* separator ("1.234,56" is 1234.56, "1234,56" is 1234.56).
C9_FormasDeMonto ==
    MontoLlamado =>
        /\ FormaComaMilesPuntoDecimal(arg.txt)
              => FloatEq(ret, ValorDosDecimales(arg.txt))
        /\ FormaPuntoMilesComaDecimal(arg.txt)
              => FloatEq(ret, ValorDosDecimales(arg.txt))

\* [0-9]{2}/[A-Z]{3}
FormaDDMON(s) ==
    /\ Len(s) = 6
    /\ SoloDigitos(SubSeq(s, 1, 2))
    /\ s[3] = "/"
    /\ \A i \in 4..6 : s[i] \in Mayusculas

MesesEnOrden ==
    <<<<"E", "N", "E">>, <<"F", "E", "B">>, <<"M", "A", "R">>, <<"A", "B", "R">>,
      <<"M", "A", "Y">>, <<"J", "U", "N">>, <<"J", "U", "L">>, <<"A", "G", "O">>,
      <<"S", "E", "P">>, <<"O", "C", "T">>, <<"N", "O", "V">>, <<"D", "I", "C">>>>

\* the two-digit calendar number of a month token, 01 for an unknown token
MesEsperado(mon) ==
    IF \E i \in 1..12 : MesesEnOrden[i] = mon
    THEN LET i == CHOOSE j \in 1..12 : MesesEnOrden[j] = mon
         IN  <<DigitoChar(i \div 10), DigitoChar(i % 10)>>
    ELSE <<"0", "1">>

FechaLlamada ==
    /\ mode = "fecha" /\ fn \in {"_parse_fecha", "_fecha_ddmes_a_iso"}
    /\ arg.anio # NoneStr
    /\ FormaDDMON(arg.fecha_ddmes)

\* C10: for a two-digit day DD, a three-letter month token MON and a
\* four-digit year Y, both abbreviated-date normalizers turn DD/MON into
\* Y-MM-DD, MM being the calendar number of a known abbreviation and 01 for
\* any other token.
C10_FechaAbreviada ==
    FechaLlamada =>
        ret = arg.anio \o <<"-">> \o MesEsperado(SubSeq(arg.fecha_ddmes, 4, 6))
                       \o <<"-">> \o SubSeq(arg.fecha_ddmes, 1, 2)

\* C10 witness: the method has converted a date whose month token is unknown
C10_Witness ==
    /\ FechaLlamada
    /\ fn = "_parse_fecha"
    /\ SubSeq(arg.fecha_ddmes, 4, 6) = <<"X", "E", "N">>
    /\ arg.anio = <<"1", "9", "9", "9">>
    /\ SubSeq(ret, 1, 8) = <<"1", "9", "9", "9", "-", "0", "1", "-">>

----------------------------------------------------------------------------
(* Properties of the column resolver and of the row grouper *)

\* the indexes of the header-label words of a word list
IndicesEtiquetas(ws) == {i \in 1..Len(ws) : norm(ws[i].text) \in objetivos}

MinTop(ws, G) == CHOOSE t \in {ws[i].top : i \in G} : \A i \in G : t <= ws[i].top

\* G is one header-row group: every word within tol_fila of its topmost word
EsGrupo(ws, G) == G # {} /\ \A i \in G : ws[i].top - MinTop(ws, G) <= tol_fila

\* G holds the four labels
GrupoCompleto(ws, G) == \A k \in objetivos : \E i \in G : norm(ws[i].text) = k

\* the label words of ws are two header-row groups, G1 above G2, each with
\* the four labels
DosGrupos(ws, G1, G2) ==
    /\ EsGrupo(ws, G1) /\ EsGrupo(ws, G2)
    /\ GrupoCompleto(ws, G1) /\ GrupoCompleto(ws, G2)
    /\ MinTop(ws, G2) - MinTop(ws, G1) > tol_fila

ColumnasResueltas == mode = "geom" /\ fn = "_detectar_columnas_montos"

\* the label words within tol_fila of the topmost label word: the only
\* possible upper group
GrupoSuperior(ws) ==
    LET H == IndicesEtiquetas(ws)
    IN  {i \in H : ws[i].top - MinTop(ws, H) <= tol_fila}

\* C6: when the label words of a page form two header-row groups at
\* different vertical offsets, each with the four labels, the resolver
\* returns, for each label, the centre of a word of the upper group, in
\* whatever order the words were given.
C6_EncabezadoSuperior ==
    ColumnasResueltas =>
        LET G1 == GrupoSuperior(arg.words)
            G2 == IndicesEtiquetas(arg.words) \ G1
        IN  DosGrupos(arg.words, G1, G2) =>
                /\ DictKeys(ret) = objetivos
                /\ \A k \in objetivos : \E i \in G1 :
                      /\ norm(arg.words[i].text) = k
                      /\ DictGet(ret, k) = Centro2(arg.words[i])

\* C6 witness: a page given lower header first, whose upper header has words
\* at two offsets, resolved to the centres of the upper header
C6_Witness ==
    /\ ColumnasResueltas
    /\ LET G1 == GrupoSuperior(arg.words)
       IN  /\ DosGrupos(arg.words, G1, IndicesEtiquetas(arg.words) \ G1)
           /\ \E i, j \in G1 : arg.words[i].top # arg.words[j].top
    /\ norm(arg.words[1].text) = LIQUIDACION
    /\ arg.words[1].top > TopEncabezado + tol_fila
    /\ DictGet(ret, CARGOS) = 240

FilasAgrupadas == mode = "geom" /\ fn = "_agrupar_filas"

\* the words of the rows, as a set, and their number
PalabrasDe(rows) == UNION {{rows[r][i] : i \in 1..Len(rows[r])} : r \in 1..Len(rows)}

RECURSIVE SumaLen(_)
SumaLen(rows) == IF rows = <<>> THEN 0 ELSE Len(Head(rows)) + SumaLen(Tail(rows))

\* C7: every word of the page is in a row, and two words whose vertical
\* offsets differ by more than tol are never in one row, whatever their
\* horizontal positions.
C7_FilasSeparadas ==
    FilasAgrupadas =>
        /\ PalabrasDe(ret) = {arg.words[i] : i \in 1..Len(arg.words)}
        /\ SumaLen(ret) = Len(arg.words)
        /\ \A r \in 1..Len(ret) : \A i, j \in 1..Len(ret[r]) :
              Abs(ret[r][i].top - ret[r][j].top) <= tol

\* C7 witness: two words at the same horizontal position, more than tol
\* apart, in two rows, one of which holds a second word
C7_Witness ==
    /\ FilasAgrupadas
    /\ Len(ret) = 2
    /\ Len(ret[1]) = 2
    /\ ret[1][1].x0 = ret[2][1].x0
    /\ ret[2][1].top - ret[1][1].top > tol

MismaFila(rows, a, b) ==
    \E r \in 1..Len(rows) : \E i, j \in 1..Len(rows[r]) :
        rows[r][i] = a /\ rows[r][j] = b

\* C8 as claimed: any two words of the page whose vertical offsets differ by
\* at most tol are in one row.
C8_Original ==
    FilasAgrupadas =>
        \A i, j \in 1..Len(arg.words) :
            Abs(arg.words[i].top - arg.words[j].top) <= tol
                => MismaFila(ret, arg.words[i], arg.words[j])

\* C8 amended: a word whose vertical offset is at or below the offset of a
\* row's first word (its anchor) and within tol of it is in that row; on a
\* page of two words, two words within tol of each other are in one row.
C8_FilaDelAncla ==
    FilasAgrupadas =>
        /\ \A r \in 1..Len(ret) : \A i \in 1..Len(arg.words) :
              /\ arg.words[i].top >= ret[r][1].top
              /\ arg.words[i].top - ret[r][1].top <= tol
              => \E j \in 1..Len(ret[r]) : ret[r][j] = arg.words[i]
        /\ Len(arg.words) = 2
              /\ Abs(arg.words[1].top - arg.words[2].top) <= tol
              => Len(ret) = 1

\* C8 witness: a word exactly tol below the anchor shares its row, and a
\* third word within tol of that one starts the next row
C8_Witness ==
    /\ FilasAgrupadas
    /\ Len(ret) = 2
    /\ Len(ret[1]) = 2
    /\ ret[1][2].top = ret[1][1].top + tol
    /\ ret[2][1].top - ret[1][2].top <= tol

----------------------------------------------------------------------------
(* Properties of the line-pattern extractor *)

\* for each line of the vocabulary, whether it holds a stop marker
CorteDe ==
    [l \in VocabularioTC |->
        \E mk \in stop_markers : Subcadena(mk, Upper(_norm_line(l)))]

EsCorte(line) == CorteDe[line]

\* for each line of the vocabulary, whether reading it appends a record
RegistroDe ==
    [l \in VocabularioTC |-> ProcesarLineaTC(_norm_line(l), 1).nuevos # <<>>]

DaRegistro(line) == RegistroDe[line]

\* the line at page p, index i lies before the line the extractor reads next
Pasada(p, i) ==
    \/ p < num_pagina
    \/ p = num_pagina /\ pc = "linea" /\ i < idx

\* a line holding a stop marker lies behind the extractor
MarcadorPasado ==
    /\ mode = "tc"
    /\ \E p \in 1..Len(pdf) : \E i \in 1..Len(pdf[p]) :
          EsCorte(pdf[p][i]) /\ Pasada(p, i)

\* no line holding a stop marker comes before the line at page p, index i
AntesDelCorte(p, i) ==
    \A q \in 1..Len(pdf) : \A j \in 1..Len(pdf[q]) :
        EsCorte(pdf[q][j]) => (p < q \/ (p = q /\ i < j))

\* the lines that come before every stop marker and yield a record when read
LineasConRegistro ==
    {<<p, i>> \in (1..Len(pdf)) \X (1..MaxLineas) :
        /\ i <= Len(pdf[p])
        /\ AntesDelCorte(p, i)
        /\ DaRegistro(pdf[p][i])}

\* C1: once a line with a stop marker has been read, no step appends a record
\* or changes the records appended before, on that page or on a later one,
\* and the document's result holds exactly one record for each matching line
\* that comes before the marker.
C1_CorteDefinitivo ==
    [][/\ MarcadorPasado => movimientos' = movimientos
       /\ mode = "tc" /\ pc' = "done"
             => Len(df') = Cardinality(LineasConRegistro)]_vars

\* C1 witness: a document was read to its end whose first page has a record
\* before the stop marker and whose second page has a matching line
C1_Witness ==
    /\ mode = "tc" /\ pc = "done"
    /\ Len(pdf) = 2
    /\ \E i \in 1..Len(pdf[1]) : EsCorte(pdf[1][i])
    /\ \E i \in 1..Len(pdf[2]) :
          DaRegistro(pdf[2][i])
    /\ Len(df) = 1

\* the amount text of a matched line
TextoMonto(line) == MontoDe(Split(_norm_line(line)))

\* an amount text denotes a number below zero
TextoNegativo(txt) ==
    Head(txt) = "-" /\ \E i \in 1..Len(txt) : txt[i] \in Digitos \ {"0"}

UnoSolo(r) == (r.cargos = None) # (r.abonos = None)

\* C4: every record has exactly one of cargos and abonos, and the step that
\* appends a record puts the magnitude of the line's amount in abonos when
\* the amount is negative and in cargos otherwise, zero included.
C4_CargoOAbono ==
    [][mode = "tc" =>
         /\ \A n \in 1..Len(movimientos') : UnoSolo(movimientos'[n])
         /\ \A n \in 1..Len(df') : UnoSolo(df'[n])
         /\ Len(movimientos') = Len(movimientos) + 1 =>
               LET r == movimientos'[Len(movimientos')]
                   txt == TextoMonto(pdf[num_pagina][idx])
               IN  IF TextoNegativo(txt)
                   THEN /\ r.cargos = None
                        /\ FloatEq(r.abonos, ValorDosDecimales(txt))
                        /\ ~r.abonos.neg
                   ELSE /\ r.abonos = None
                        /\ FloatEq(r.cargos, ValorDosDecimales(txt))]_vars

\* C4 witness: a credit from a negative amount and a charge of zero
C4_Witness ==
    /\ mode = "tc"
    /\ \E n \in 1..Len(movimientos) :
          /\ movimientos[n].cargos = None
          /\ movimientos[n].abonos = Float(FALSE, 1243234, 2)
    /\ \E n \in 1..Len(movimientos) :
          /\ movimientos[n].abonos = None
          /\ movimientos[n].cargos = Float(FALSE, 0, 0)

Veces(s, e) == Cardinality({i \in 1..Len(s) : s[i] = e})

\* t is s in another order
EsPermutacion(s, t) ==
    /\ Len(s) = Len(t)
    /\ \A i \in 1..Len(s) : Veces(s, s[i]) = Veces(t, s[i])

\* Timestamp a is before Timestamp b
FechaAntes(a, b) ==
    \/ a.y < b.y
    \/ a.y = b.y /\ a.m < b.m
    \/ a.y = b.y /\ a.m = b.m /\ a.d < b.d

\* record a may stand before record b: by settlement date, then by page, a
\* record without settlement date after every record with one
EnOrden(a, b) ==
    LET fa == a.fecha_liquidacion
        fb == b.fecha_liquidacion
    IN  IF fa = NaT THEN fb = NaT
        ELSE fb = NaT \/ FechaAntes(fa, fb) \/ (fa = fb /\ a.pagina <= b.pagina)

\* C5: the list returned is the extracted records in another order, sorted
\* by settlement date and then by page, the records whose settlement date
\* cannot be read after all others; sorting it again changes nothing.
C5_Ordenado ==
    mode = "tc" /\ pc = "done" =>
        /\ EsPermutacion(DataFrame(movimientos), df)
        /\ \A i, j \in 1..Len(df) : i < j => EnOrden(df[i], df[j])
        /\ sort_values(df) = df

\* C5 witness: three records returned, the first from page 2, the second
\* from page 1 and the last without a readable settlement date
C5_Witness ==
    /\ mode = "tc" /\ pc = "done"
    /\ Len(df) = 3
    /\ df[1].pagina = 2 /\ df[2].pagina = 1
    /\ df[2].fecha_liquidacion # NaT
    /\ df[3].fecha_liquidacion = NaT /\ df[3].pagina = 1

----------------------------------------------------------------------------
(* Properties of the positional extractor *)

\* the row that the next step of the row pass processes
FilaActual == filas[idx]

\* the number of date-like tokens (DD/MON) of a row
NumFechas(fila) == Cardinality({i \in 1..Len(fila) : FormaDDMON(fila[i].text)})

\* the text of a row: its words joined by single spaces
TextoDe(fila) == Unir(Lista([i \in 1..Len(fila) |-> fila[i].text]))

\* the row carries the totals marker that closes the page
CierraPagina(fila) ==
    \/ Subcadena(<<"T", "O", "T", "A", "L", " ", "D", "E", " ", "M", "O", "V", "I", "M", "I", "E", "N", "T", "O", "S">>,
                  Upper(TextoDe(fila)))
    \/ Subcadena(<<"T", "O", "T", "A", "L", " ", "M", "O", "V", "I", "M", "I", "E", "N", "T", "O", "S">>,
                  Upper(TextoDe(fila)))

\* the row starts with FECHA SALDO
EsFechaSaldo(fila) == EmpiezaCon(TextoDe(fila), 
    <<"F", "E", "C", "H", "A", " ", "S", "A", "L", "D", "O">>)

\* movs with the text joined to the detail of record n
Anexado(movs, n, texto) ==
    [movs EXCEPT ![n].detalle =
         IF @ = <<>> THEN texto ELSE @ \o <<" ", "|", " ">> \o texto]

\* exactly one record is appended and the others are kept
UnRegistroMas ==
    /\ Len(movimientos') = Len(movimientos) + 1
    /\ SubSeq(movimientos', 1, Len(movimientos)) = movimientos

\* C2 as stated: every row of a ledger page with exactly two date-like tokens
\* appends exactly one record; every row with zero or one date-like token
\* appends none and, when a transaction is open, its text is joined to the
\* detail of that transaction.
C2_Original ==
    [][mode = "pos" /\ pc = "fila" =>
          /\ NumFechas(FilaActual) = 2 => UnRegistroMas
          /\ NumFechas(FilaActual) < 2 =>
                /\ Len(movimientos') = Len(movimientos)
                /\ idx_ultimo_mov # 0 =>
                      movimientos' = Anexado(movimientos, idx_ultimo_mov,
                                             TextoDe(FilaActual))]_vars

\* C2 amended: a row with the totals marker closes the page and changes no
\* record; of the rows processed before it, one with exactly two date-like
\* tokens appends exactly one record, and one with zero or one date-like token
\* appends none and, when a transaction is open on the page and the row does
\* not start with FECHA SALDO, its text is joined to the detail of that
\* transaction; otherwise it changes no record.
C2_FilaClasificada ==
    [][mode = "pos" /\ pc = "fila" =>
          /\ CierraPagina(FilaActual) =>
                /\ movimientos' = movimientos
                /\ pc' = "pagina" /\ num_pagina' = num_pagina + 1
          /\ ~CierraPagina(FilaActual) /\ NumFechas(FilaActual) = 2 =>
                /\ UnRegistroMas
                /\ movimientos'[Len(movimientos')].pagina = num_pagina
                /\ movimientos'[Len(movimientos')].detalle = <<>>
          /\ ~CierraPagina(FilaActual) /\ NumFechas(FilaActual) < 2 =>
                movimientos' =
                    IF idx_ultimo_mov # 0 /\ ~EsFechaSaldo(FilaActual)
                    THEN Anexado(movimientos, idx_ultimo_mov, TextoDe(FilaActual))
                    ELSE movimientos]_vars

\* a purchase followed by a row without dates and a row with one date, both
\* joined to its detail
C2_Witness ==
    /\ mode = "pos" /\ pc = "done"
    /\ Len(df) = 1
    /\ df[1].detalle = TextoDe(FilaDetalle(0)) \o <<" ", "|", " ">>
                           \o TextoDe(FilaUnaFecha(0))

\* no row before row idx of the page starts a transaction
SinInicioAntes == \A i \in 1..(idx - 1) : NumFechas(filas[i]) < 2

\* C3 as stated: the open-transaction reference changes only at a row that
\* starts a transaction, and a continuation row before the first
\* transaction-start row of a later page is joined to the detail of the last
\* record opened on an earlier page.
C3_Original ==
    [][mode = "pos" =>
          /\ idx_ultimo_mov' # idx_ultimo_mov =>
                pc = "fila" /\ NumFechas(FilaActual) >= 2
          /\ /\ pc = "fila" /\ movimientos # <<>> /\ SinInicioAntes
             /\ NumFechas(FilaActual) < 2
             /\ ~CierraPagina(FilaActual) /\ ~EsFechaSaldo(FilaActual)
             => movimientos' = Anexado(movimientos, Len(movimientos),
                                       TextoDe(FilaActual))]_vars

\* C3 amended: the open-transaction reference is set to the new record at a
\* row that starts a transaction and is cleared when the row pass of a ledger
\* page begins, and it changes at no other step; the open transaction is
\* always a record of the page in process, and a continuation row before the
\* first transaction-start row of a page changes no record.
C3_ReinicioPorPagina ==
    [][mode = "pos" =>
          /\ idx_ultimo_mov' # idx_ultimo_mov =>
                \/ /\ pc = "fila" /\ NumFechas(FilaActual) >= 2
                   /\ idx_ultimo_mov' = Len(movimientos')
                \/ pc = "pagina" /\ pc' = "fila" /\ idx_ultimo_mov' = 0
          /\ pc = "pagina" /\ pc' = "fila" => idx_ultimo_mov' = 0
          /\ pc = "fila" /\ idx_ultimo_mov # 0 =>
                movimientos[idx_ultimo_mov].pagina = num_pagina
          /\ pc = "fila" /\ SinInicioAntes /\ NumFechas(FilaActual) < 2 =>
                movimientos' = movimientos]_vars

\* a purchase on the first page and a row without dates on the second: the
\* detail of the purchase stays empty
C3_Witness ==
    /\ mode = "pos" /\ pc = "done"
    /\ Len(pdf) = 2
    /\ pdf[1] = PaginaPos(TRUE, <<"compra">>, TRUE)
    /\ pdf[2] = PaginaPos(TRUE, <<"detalle">>, FALSE)
    /\ Len(df) = 1 /\ df[1].pagina = 1 /\ df[1].detalle = <<>>

----------------------------------------------------------------------------
(* Properties of the strategy detector *)

\* the letters and digits of an upper-case name
Alfanumericos == Digitos \cup Mayusculas \cup {"Ñ", "Á", "É", "Í", "Ó", "Ú"}

\* the whole words of a name: its maximal runs of letters and digits
PalabrasEnteras(s) ==
    UNION {{SubSeq(s, i, j) : j \in {k \in i..Len(s) :
                /\ \A l \in i..k : s[l] \in Alfanumericos
                /\ k = Len(s) \/ s[k + 1] \notin Alfanumericos}} :
           i \in {k \in 1..Len(s) : k = 1 \/ s[k - 1] \notin Alfanumericos}}

\* the upper-case file name of the call
NombreLlamado == Upper(arg.ruta)

\* the name carries the issuer tag
TieneEmisor == Subcadena(<<"B", "B", "V", "A">>, NombreLlamado)

\* the name carries a whole-word credit-card marker
MarcadorEnNombre ==
    PalabrasEnteras(NombreLlamado) \cap
        {<<"T", "C">>, <<"T", "D", "C">>, <<"T", "A", "R", "J", "E", "T",
            "A">>,
         <<"C", "R", "E", "D", "I", "T", "O">>,
         <<"C", "R", "É", "D", "I", "T", "O">>} # {}

\* the first page of the document opens and reads as a credit-card statement
ContenidoDeTarjeta ==
    /\ arg.doc.abre /\ arg.doc.textos # <<>> /\ arg.doc.textos[1] # NoneStr
    /\ \E k \in {<<"T", "A", "R", "J", "E", "T", "A", " ", "T", "I", "T",
        "U", "L", "A", "R">>,
                 <<"M", "O", "V", "I", "M", "I", "E", "N", "T", "O", "S",
                     " ", "E", "F", "E", "C", "T", "U", "A", "D", "O", "S">>,
                 <<"I", "M", "P", "O", "R", "T", "E", " ", "C", "A", "R",
                     "G", "O", "S">>,
                 <<"I", "M", "P", "O", "R", "T", "E", " ", "A", "B", "O",
                     "N", "O", "S">>,
                 <<"T", " ", "N", "E", "G", "O", "C", "I", "O">>} :
          Subcadena(k, Upper(arg.doc.textos[1]))

\* the line-pattern strategy with account tag TC and currency MXN
EsEleccionTC ==
    /\ ret.clase = "BBVATCParser"
    /\ ret.cuenta_por_defecto = <<"T", "C">>
    /\ ret.moneda_por_defecto = <<"M", "X", "N">>

\* the 4-digit words and the currency words of the name
CuentasEnNombre ==
    {w \in PalabrasEnteras(NombreLlamado) : Len(w) = 4 /\ SoloDigitos(w)}
MonedasEnNombre ==
    PalabrasEnteras(NombreLlamado) \cap {<<"M", "X", "N">>, <<"U", "S", "D">>}

C12_CuentaYMoneda ==
    mode = "det" /\ pc = "done" =>
        \A c \in CuentasEnNombre, m \in MonedasEnNombre :
            /\ TieneEmisor /\ ~MarcadorEnNombre /\ ~ContenidoDeTarjeta
            /\ CuentasEnNombre = {c} /\ MonedasEnNombre = {m}
            => /\ ret.clase = "BBVAParser"
               /\ ret.cuenta_por_defecto = c
               /\ ret.moneda_por_defecto = m

----------------------------------------------------------------------------
(* Properties of the batch *)

\* the documents of the selection that are behind
Atras == i_archivo - 1

\* no strategy matches the document
SinEstrategia(a) == ~Subcadena(BBVA, Upper(PathName(a.ruta)))

\* the bank of the document's strategy is not ticked
BancoInactivo(a) ==
    /\ ~SinEstrategia(a)
    /\ \A n \in 1..Len(arg.bancos_activos) :
          Strip(Upper(arg.bancos_activos[n])) # BBVA

\* the extraction of the document raises
ExtraccionFalla(a) ==
    /\ ~SinEstrategia(a) /\ ~BancoInactivo(a)
    /\ \/ ~a.doc.abre
       \/ /\ get_parser_for_file(a.ruta, a.doc).clase = "BBVAParser"
          /\ a.doc.layout = <<>>

\* the documents that are in the failure list f
EnFallidos(f, ruta) == \E n \in 1..Len(f) : f[n].archivo = ruta

\* the documents behind that are neither failed nor filtered, in order
Logrados ==
    SelectSeq(Lista([n \in 1..Atras |-> selected_files[n]]),
              LAMBDA a : ~EnFallidos(fallidos, a.ruta) /\ ~BancoInactivo(a))

\* the failure list names documents behind, each once, in selection order
FallidosEnOrden ==
    \E pos \in [1..Len(fallidos) -> 1..Atras] :
        /\ \A n \in 1..Len(fallidos) :
              fallidos[n].archivo = selected_files[pos[n]].ruta
        /\ \A n, m \in 1..Len(fallidos) : n < m => pos[n] < pos[m]

C13_Estado ==
    mode = "lote" =>
        /\ FallidosEnOrden
        /\ \A n \in 1..Len(fallidos) : fallidos[n].error # ""
        /\ \A n \in 1..Atras :
              LET a == selected_files[n]
              IN  /\ SinEstrategia(a) =>
                        \E k \in 1..Len(fallidos) :
                            /\ fallidos[k].archivo = a.ruta
                            /\ fallidos[k].error = "No se encontró parser compatible."
                  /\ ExtraccionFalla(a) => EnFallidos(fallidos, a.ruta)
                  /\ BancoInactivo(a) => ~EnFallidos(fallidos, a.ruta)
        /\ Len(dfs) = Len(Logrados)
        /\ \A n \in 1..Len(dfs) : dfs[n] # <<>>
        /\ pc = "fin" =>
              /\ i_archivo = Len(selected_files) + 1
              /\ ret.fallidos = fallidos
              /\ ret.df_total = Concat(dfs)
              /\ Len(ret.df_total) >= Len(dfs)

\* the records of d without the columns that the batch writes
SinColumnas(d) ==
    Lista([n \in 1..Len(d) |->
              [c \in DOMAIN d[n] \ {"banco", "tipo_producto", "cuenta"} |->
                  d[n][c]]])

C13_Paso ==
    mode = "lote" =>
        /\ i_archivo' \in {i_archivo, i_archivo + 1}
        /\ \/ UNCHANGED <<dfs, fallidos>>
           \/ /\ i_archivo' = i_archivo + 1
              /\ fallidos' = fallidos
              /\ Len(dfs') = Len(dfs) + 1
              /\ SubSeq(dfs', 1, Len(dfs)) = dfs
              /\ SinColumnas(dfs'[Len(dfs')]) = SinColumnas(df)
              /\ df # <<>>
           \/ /\ i_archivo' = i_archivo + 1
              /\ dfs' = dfs
              /\ Len(fallidos') = Len(fallidos) + 1
              /\ SubSeq(fallidos', 1, Len(fallidos)) = fallidos
              /\ fallidos'[Len(fallidos')].archivo = selected_files[i_archivo].ruta

\* C13: a document without strategy, or whose detection or extraction raises,
\* is in the failure list with a reason; every other selected document is
\* still taken in its turn, and the result of the batch has all the records
\* of the documents that succeeded, in selection order.
C13_FalloAislado == []C13_Estado /\ [][C13_Paso]_vars

\* a batch that ended with a failed document first and the records of the
\* second document in its result
C13_Witness ==
    /\ mode = "lote" /\ pc = "fin"
    /\ Len(selected_files) = 2
    /\ SinEstrategia(selected_files[1]) \/ ExtraccionFalla(selected_files[1])
    /\ Len(ret.fallidos) = 1
    /\ ret.fallidos[1].archivo = selected_files[1].ruta
    /\ Len(dfs) = 1 /\ ret.df_total = dfs[1] /\ Len(ret.df_total) >= 1

----------------------------------------------------------------------------
(* Properties of the fields of a record *)

\* the required fields of a record of the positional extractor: texts
CamposRequeridos(r) ==
    /\ r.fecha_operacion \notin {<<>>, NoneStr}
    /\ r.fecha_liquidacion \notin {<<>>, NoneStr}
    /\ r.descripcion \notin {<<>>, NoneStr}

\* the required fields of a record of the line-pattern extractor, its
\* settlement date a Timestamp
CamposRequeridosTC(r) ==
    /\ r.fecha_operacion \notin {<<>>, NoneStr}
    /\ r.fecha_liquidacion # NaT
    /\ r.descripcion \notin {<<>>, NoneStr}

\* C14: in both extractors every record that is emitted has a non-empty
\* operation date, a non-empty settlement date and a non-empty description.
C14_CamposRequeridos ==
    /\ mode = "fila" /\ fn # "" => CamposRequeridos(ret)
    /\ mode = "pos" /\ pc = "done" =>
          \A n \in 1..Len(df) : CamposRequeridos(df[n])
    /\ mode = "tc" /\ pc = "done" =>
          \A n \in 1..Len(df) : CamposRequeridosTC(df[n])

\* the centers that the header row of the call gives
CentrosDeLaFila == _detectar_columnas_montos(arg.encabezado)

\* the places in the row of the two dates and of the code that were consumed
Consumidos ==
    LET f == IdxFechas(arg.fila)
    IN  {f[1], f[2]} \cup (IF Len(arg.fila) > f[2] THEN {f[2] + 1} ELSE {})

\* the words of the row left of the charges centre that were not consumed,
\* in row order
PalabrasDeDescripcion ==
    LET quedan == SelectSeq(Lista([i \in 1..Len(arg.fila) |-> i]),
                      LAMBDA i :
                          /\ i \notin Consumidos
                          /\ Centro2(arg.fila[i]) < DictGet(CentrosDeLaFila, CARGOS))
    IN  Lista([k \in 1..Len(quedan) |-> arg.fila[quedan[k]].text])

\* C15: the code of the record is the token right after the second date
\* token, empty when there is none, and its description is, in row order, the
\* words left of the charges centre other than the two date tokens and the
\* code token that were consumed; a word elsewhere in the row with the text
\* of the code or of a date stays in the description.
C15_CodigoYDescripcion ==
    mode = "fila" /\ fn # "" =>
        /\ ret.codigo = (IF Len(arg.fila) > IdxFechas(arg.fila)[2]
                         THEN arg.fila[IdxFechas(arg.fila)[2] + 1].text
                         ELSE <<>>)
        /\ ret.descripcion = Unir(PalabrasDeDescripcion)

\* C15 without a second word that has the text of a consumed token
C15_SinRepetidos ==
    (\A i \in 1..Len(arg.fila) \ Consumidos :
        \A j \in Consumidos : arg.fila[i].text # arg.fila[j].text)
        => C15_CodigoYDescripcion

----------------------------------------------------------------------------
(* Properties of the pages of the positional extractor *)

\* the details of the records that the rows of the types tipos, from the
\* i-th on, leave on a ledger page, dets being the details of the records
\* opened before: the rows from the totals row on leave nothing
RECURSIVE DetallesDe(_, _, _)
DetallesDe(tipos, i, dets) ==
    IF i > Len(tipos) \/ tipos[i] = "total" THEN dets
    ELSE IF tipos[i] \in {"compra", "deposito"}
    THEN DetallesDe(tipos, i + 1, Append(dets, <<>>))
    ELSE IF dets = <<>> \/ tipos[i] = "fecha_saldo"
    THEN DetallesDe(tipos, i + 1, dets)
    ELSE DetallesDe(tipos, i + 1,
             [dets EXCEPT ![Len(dets)] =
                  IF @ = <<>> THEN TextoDe(FilaDe(tipos[i], 0))
                  ELSE @ \o <<" ", "|", " ">> \o TextoDe(FilaDe(tipos[i], 0))])

\* the page and the detail of the records that page p of the document leaves
RegistrosDePagina(p) ==
    LET dets == IF pdf[p].enc THEN DetallesDe(pdf[p].tipos, 1, <<>>) ELSE <<>>
    IN  Lista([k \in 1..Len(dets) |-> <<p, dets[k]>>])

\* page p has a totals row with rows after it
CortaFilas(p) ==
    /\ pdf[p].enc
    /\ \E i \in 1..(Len(pdf[p].tipos) - 1) : pdf[p].tipos[i] = "total"

\* C16: a row with the totals marker stops the page: the rows after it on
\* the page append no record and change no detail, the rows before it keep
\* their effect, and the pages after it are still processed.
C16_CorteDePagina ==
    mode = "pos" /\ pc = "done" =>
        Lista([n \in 1..Len(df) |-> <<df[n].pagina, df[n].detalle>>])
            = Aplanar(Lista([p \in 1..Len(pdf) |-> RegistrosDePagina(p)]))

\* the totals row and then a purchase on the first page, a credit on the
\* second: the purchase leaves no record and the credit leaves one
C16_Witness ==
    /\ mode = "pos" /\ pc = "done"
    /\ Len(pdf) = 2 /\ CortaFilas(1)
    /\ pdf[1].tipos = <<"total", "compra">>
    /\ pdf[2].enc /\ pdf[2].tipos = <<"deposito">>
    /\ Len(df) = 1 /\ df[1].pagina = 2

\* the centers c are those of the four labels of one header-row group of ws
CentrosDeUnGrupo(c, ws) ==
    /\ c # NoneDict
    /\ DictKeys(c) = objetivos
    /\ \E G \in SUBSET IndicesEtiquetas(ws) :
          /\ EsGrupo(ws, G)
          /\ \A k \in objetivos : \E i \in G :
                /\ norm(ws[i].text) = k
                /\ DictGet(c, k) = Centro2(ws[i])

\* the step that enters a page either resolves its four centers from one
\* header-row group and goes to its rows, or goes to the next page; it
\* changes no record
C17_Paso ==
    mode = "pos" /\ pc = "pagina" /\ num_pagina <= Len(pdf) =>
        /\ movimientos' = movimientos
        /\ \/ /\ pc' = "fila" /\ num_pagina' = num_pagina
              /\ CentrosDeUnGrupo(col_centers', extract_words(pdf[num_pagina]))
           \/ /\ pc' = "pagina" /\ num_pagina' = num_pagina + 1
              /\ _detectar_columnas_montos(extract_words(pdf[num_pagina])) = NoneDict
                    \/ pdf[num_pagina].portada

\* no record is of a page without header row, and a page with header row
\* whose first row starts a transaction has a record
C17_Estado ==
    mode = "pos" /\ pc = "done" =>
        /\ \A n \in 1..Len(df) : pdf[df[n].pagina].enc
        /\ \A p \in 1..Len(pdf) :
              /\ pdf[p].enc /\ pdf[p].tipos # <<>>
              /\ pdf[p].tipos[1] \in {"compra", "deposito"}
              => \E n \in 1..Len(df) : df[n].pagina = p

\* C17: for every page either the four column centers are resolved from one
\* header-row group, or the layout is undetected and that page alone is
\* skipped: it appends no record and changes no detail, and the other pages
\* of the document are still processed.
C17_PaginaOmitida == []C17_Estado /\ [][C17_Paso]_vars

\* a first page with a broken header row and a purchase, and a second page
\* with header row and a credit: the only record is that of the second page
C17_Witness ==
    /\ mode = "pos" /\ pc = "done"
    /\ pdf = <<PaginaPartida(<<"compra">>),
               PaginaPos(TRUE, <<"deposito">>, FALSE)>>
    /\ Len(df) = 1 /\ df[1].pagina = 2

----------------------------------------------------------------------------
(* Properties of the order of the rows *)

\* the rows are a partition of the words of the page into non-empty rows
EsParticion ==
    /\ \A r \in 1..Len(ret) : ret[r] # <<>>
    /\ SumaLen(ret) = Len(arg.words)
    /\ \A i \in 1..Len(arg.words) :
          Cardinality({j \in 1..Len(arg.words) : arg.words[j] = arg.words[i]})
              = Cardinality({rj \in UNION {{<<r, j>> : j \in 1..Len(ret[r])} :
                                              r \in 1..Len(ret)} :
                                ret[rj[1]][rj[2]] = arg.words[i]})

\* the rows go down the page by the offset of their first word
DeArribaAbajo ==
    \A r \in 1..(Len(ret) - 1) : ret[r][1].top < ret[r + 1][1].top

\* the words of every row go from left to right
DeIzquierdaADerecha ==
    \A r \in 1..Len(ret) : \A i, j \in 1..Len(ret[r]) :
        i < j => ret[r][i].x0 <= ret[r][j].x0

\* C18: the rows are a partition of the words of the page into non-empty
\* rows, top to bottom by anchor offset, and within every row the words are
\* left to right, also when the words of a row have different offsets.
C18_FilasOrdenadas ==
    FilasAgrupadas => EsParticion /\ DeArribaAbajo /\ DeIzquierdaADerecha

\* C18 without the order within the rows, and with it for the rows whose
\* words share one offset
C18_OrdenPorOffset ==
    FilasAgrupadas =>
        /\ EsParticion /\ DeArribaAbajo
        /\ \A r \in 1..Len(ret) : \A i, j \in 1..Len(ret[r]) :
              i < j =>
                 \/ ret[r][i].top < ret[r][j].top
                 \/ /\ ret[r][i].top = ret[r][j].top
                    /\ ret[r][i].x0 <= ret[r][j].x0

----------------------------------------------------------------------------
(* Properties of the amounts of a row *)

\* the place in the layout's iteration order of the column that the token
\* at the doubled centre x goes to: the first of the nearest columns
LugarDeColumna(x, c) ==
    CHOOSE j \in 1..Len(c) :
        /\ \A l \in 1..Len(c) : Abs(x - c[j].v) <= Abs(x - c[l].v)
        /\ \A l \in 1..(j - 1) : Abs(x - c[l].v) # Abs(x - c[j].v)

\* the amount tokens of the row that go to column k
TokensDe(k) ==
    {i \in 1..Len(arg.fila) :
        /\ PATRON_MONTO(arg.fila[i].text)
        /\ CentrosDeLaFila[LugarDeColumna(Centro2(arg.fila[i]),
                                          CentrosDeLaFila)].k = k}

\* the field of the record for column k
CampoDe(k) ==
    CASE k = CARGOS -> ret.cargos
      [] k = ABONOS -> ret.abonos
      [] k = OPERACION -> ret.saldo_operacion
      [] k = LIQUIDACION -> ret.saldo_liquidacion

\* C19: on a transaction-start row every amount token goes to the column
\* whose centre is nearest to its own, whatever the distance, the first
\* column in the layout's iteration order on a tie; a field whose column got
\* no token is absent and a field whose column got several has the last one.
C19_ColumnaMasCercana ==
    mode = "fila" /\ fn # "" =>
        \A k \in objetivos :
            IF TokensDe(k) = {} THEN CampoDe(k) = None
            ELSE LET ultimo == CHOOSE i \in TokensDe(k) :
                                   \A j \in TokensDe(k) : j <= i
                 IN  CampoDe(k) = _limpiar_monto(arg.fila[ultimo].text)

\* two amounts half way between the charges and the credits column, and
\* the charges column first in the layout: the charge is the second amount
\* and the other fields are absent
C19_Witness ==
    /\ mode = "fila" /\ fn # ""
    /\ arg.encabezado = FilaEncabezado(10)
    /\ Len(arg.fila) = 4
    /\ arg.fila[3] = Palabra(<<"4", "5", ".", "0", "0">>, 146, 154, 20)
    /\ arg.fila[4] = Palabra(<<"7", ".", "5", "0">>, 146, 154, 20)
    /\ ret.cargos = _limpiar_monto(<<"7", ".", "5", "0">>)
    /\ ret.abonos = None /\ ret.saldo_operacion = None
    /\ ret.saldo_liquidacion = None

----------------------------------------------------------------------------
(* Properties of the sign of an amount *)

\* an unsigned amount text: digits, or digits with two decimals after a dot,
\* with or without a comma before the last three digits of the integer part
SinSigno(u) ==
    \/ u # <<>> /\ SoloDigitos(u)
    \/ /\ Len(u) >= 4
       /\ SoloDigitos(SubSeq(u, 1, Len(u) - 3))
       /\ u[Len(u) - 2] = "."
       /\ SoloDigitos(SubSeq(u, Len(u) - 1, Len(u)))
    \/ FormaComaMilesPuntoDecimal(u)

\* the number that the unsigned amount text u denotes, with the sign neg
ValorConSigno(neg, u) ==
    Float(neg, DigitosAInt(SelectSeq(u, LAMBDA c : c \in Digitos)),
          IF Contiene(u, ".") THEN 2 ELSE 0)

\* the text is an unsigned amount text after one minus sign
ConMenos(txt) ==
    /\ txt # NoneStr /\ Len(txt) >= 2
    /\ Head(txt) = "-" /\ SinSigno(Tail(txt))

SignoPreservado ==
    /\ ConMenos(arg.txt) => FloatEq(ret, ValorConSigno(TRUE, Tail(arg.txt)))
    /\ arg.txt # NoneStr /\ SinSigno(arg.txt) =>
          FloatEq(ret, ValorConSigno(FALSE, arg.txt)) /\ ~FloatNegativo(ret)

\* C20: both amount normalizers give, for an amount text with one leading
\* minus sign, the negative number of the magnitude of the unsigned text,
\* and for a text without minus sign a number that is not negative.
C20_SignoPreservado == MontoLlamado => SignoPreservado

\* C20 for the normalizer of the line-pattern extractor alone
C20_SignoPreservadoTC ==
    mode = "monto" /\ fn = "_limpiar_monto_tc" => SignoPreservado

----------------------------------------------------------------------------
(* Properties of the dates that cannot be read *)

\* record n of the DataFrame comes from the line whose two dates are no
\* calendar dates (30/02/25 and 31/02/25)
LineaSinFechaEnDf(n) ==
    df[n].descripcion = <<"A", "J", "U", "S", "T", "E">>

\* C21: in the line-pattern extractor a matched line whose operation or
\* settlement date cannot be read still gives a record, and that date of the
\* record is null, not the raw text; in the positional extractor a date
\* token that cannot be converted is stored as the raw token text.
C21_FechaIlegible ==
    /\ mode = "tc" /\ pc = "done" =>
          /\ Len(df) = Len(movimientos)
          /\ \A n \in 1..Len(df) :
                /\ EsISO(df[n].fecha_operacion)
                      \/ df[n].fecha_operacion = NoneStr
                /\ df[n].fecha_liquidacion.tag \in {"Timestamp", "NaT"}
    /\ /\ mode = "fecha" /\ fn = "_parse_fecha"
       /\ ~FormaDDMON(Upper(Strip(arg.fecha_ddmes)))
       => ret = Upper(Strip(arg.fecha_ddmes))

\* C21 for the settlement date of the line-pattern extractor and for the
\* positional normalizer alone
C21_SoloLiquidacion ==
    /\ mode = "tc" /\ pc = "done" =>
          /\ Len(df) = Len(movimientos)
          /\ \A n \in 1..Len(df) :
                /\ df[n].fecha_liquidacion.tag \in {"Timestamp", "NaT"}
                /\ LineaSinFechaEnDf(n) => df[n].fecha_liquidacion = NaT
    /\ /\ mode = "fecha" /\ fn = "_parse_fecha"
       /\ ~FormaDDMON(Upper(Strip(arg.fecha_ddmes)))
       => ret = Upper(Strip(arg.fecha_ddmes))

----------------------------------------------------------------------------
(* Lines of the line-pattern extractor: one record or none (C22) *)

\* the upper-cased line is on the prefix blacklist or restates the header of
\* the table
EnListaNegra(up) ==
    \/ \E sk \in skip_starts : EmpiezaCon(up, sk)
    \/ Subcadena(FECHA, up) /\ Subcadena(AUTORIZACION, up)
         /\ Subcadena(APLICACION, up)
    \/ Subcadena(IMPORTE, up)
         /\ (Subcadena(CARGOS, up) \/ Subcadena(ABONOS, up))

\* the amount text of a line that has the form of one of the two patterns
MontoDeLaLinea(n) ==
    IF rx_con_rfc(n).ok THEN rx_con_rfc(n).monto ELSE rx_sin_rfc(n).monto

\* for each line of the vocabulary, whether it is a transaction line: it
\* holds no stop marker, is not blacklisted, has the form of Pattern A or of
\* Pattern B, and its amount can be parsed
TransaccionDe ==
    [l \in VocabularioTC |->
        LET n == _norm_line(l)
        IN  /\ n # <<>>
            /\ ~\E mk \in stop_markers : Subcadena(mk, Upper(n))
            /\ ~EnListaNegra(Upper(n))
            /\ rx_con_rfc(n).ok \/ rx_sin_rfc(n).ok
            /\ _limpiar_monto_tc(Strip(MontoDeLaLinea(n))) # None]

EsTransaccion(line) == TransaccionDe[line]

\* the transaction lines among the lines satisfying Donde(p, i)
Transacciones(Donde(_, _)) ==
    {<<p, i>> \in (1..Len(pdf)) \X (1..MaxLineas) :
        /\ i <= Len(pdf[p])
        /\ Donde(p, i)
        /\ EsTransaccion(pdf[p][i])}

\* the line at page p, index i was read before any stop marker was
LeidaAntesDelCorte(p, i) == Pasada(p, i) /\ AntesDelCorte(p, i)

\* a step that reads a transaction line before the stop marker appends one
\* record after the records already there; any other step leaves the
\* records as they are
C22_Paso ==
    mode = "tc" =>
        IF pc = "linea" /\ EsTransaccion(pdf[num_pagina][idx])
        THEN /\ Len(movimientos') = Len(movimientos) + 1
             /\ SubSeq(movimientos', 1, Len(movimientos)) = movimientos
             /\ movimientos'[Len(movimientos')].pagina = num_pagina
        ELSE movimientos' = movimientos

\* there are as many records as transaction lines read so far, and the
\* result holds as many as the document has before its stop marker
C22_Cuenta ==
    mode = "tc" =>
        /\ Len(movimientos) = Cardinality(Transacciones(LeidaAntesDelCorte))
        /\ pc = "done" => Len(df) = Cardinality(Transacciones(AntesDelCorte))

\* C22: before the stop marker each line is a whole transaction or is
\* ignored: a line that is not blacklisted, has the form of Pattern A or of
\* Pattern B and a parseable amount appends exactly one record, any other
\* line appends none, no line changes a record appended earlier, and the
\* number of records equals the number of such lines
C22_LineaCompleta == []C22_Cuenta /\ [][C22_Paso]_vars

\* a document read to its end whose three lines are a header restatement
\* with the form of a record, a transaction and prose: one record
C22_Witness ==
    /\ mode = "tc" /\ pc = "done"
    /\ pdf = <<<<LineaImporte, LineaConRfc, LineaProsa>>>>
    /\ Len(df) = 1

----------------------------------------------------------------------------
(* The two patterns of the line-pattern extractor (C23) *)

\* the tokens of the normalized line, and the place of its last token before
\* the amount, where a record line has the masked reference
FichasDeLinea(l) == Split(_norm_line(l))

LugarDeRef(l) == Len(FichasDeLinea(l)) - ColaMonto(FichasDeLinea(l))

\* the two tokens before the masked reference are a tax-id pair, and at
\* least desde tokens before the pair come two dates first
ParAntesDeRef(l, desde) ==
    LET t == FichasDeLinea(l)
        n == LugarDeRef(l)
    IN  /\ n >= desde + 3
        /\ EsRfc1(t[n - 2]) /\ EsRfc2(t[n - 1])

\* what the statement expects of the record of each line of the vocabulary:
\* the description without the pair, and the details with and without it
EsperadoDe ==
    [l \in VocabularioTC |->
        LET t == FichasDeLinea(l)
            n == LugarDeRef(l)
        IN  [par |-> ParAntesDeRef(l, 2),
             par_tras_concepto |-> ParAntesDeRef(l, 3),
             sin_par |-> IF n >= 5 THEN Unir(SubSeq(t, 3, n - 3)) ELSE <<>>,
             con_rfc |->
                 IF n >= 5
                 THEN <<"R", "F", "C", ":">> \o t[n - 2] \o <<" ">> \o t[n - 1]
                      \o <<" ", "R", "E", "F", ":">> \o t[n]
                 ELSE <<>>,
             solo_ref |-> IF n >= 1 THEN <<"R", "E", "F", ":">> \o t[n]
                          ELSE <<>>]]

\* the record r of a line with the pair: Pattern A
DePatronA(r, l) ==
    /\ r.descripcion = EsperadoDe[l].sin_par
    /\ r.detalle = EsperadoDe[l].con_rfc

\* the record r of a line without it: Pattern B
DePatronB(r, l) == r.detalle = EsperadoDe[l].solo_ref

\* the step reads a transaction line and appends its record
AnadeRegistro ==
    /\ mode = "tc" /\ pc = "linea"
    /\ EsTransaccion(pdf[num_pagina][idx])
    /\ Len(movimientos') = Len(movimientos) + 1

\* the statement as written: the record of every line with a tax-id pair
\* before the masked reference has the description without the pair and the
\* detail of both, and the record of any other line the reference alone
C23_Original ==
    [][AnadeRegistro =>
        LET l == pdf[num_pagina][idx]
            r == movimientos'[Len(movimientos')]
        IN  IF EsperadoDe[l].par THEN DePatronA(r, l) ELSE DePatronB(r, l)]_vars

\* C23: the patterns are tried in order and the first match wins: the
\* record of a line whose tax-id pair (three of A-Z, N with tilde, &, then
\* 8 to 12 of 0-9, A-Z) stands right before the masked reference and after
\* at least one description token has the description without the pair and
\* the detail "RFC:<pair> REF:<reference>"; the record of any other matched
\* line, a line whose pair comes right after the dates included, has the
\* detail "REF:<reference>" alone
C23_PrimerPatron ==
    [][AnadeRegistro =>
        LET l == pdf[num_pagina][idx]
            r == movimientos'[Len(movimientos')]
        IN  IF EsperadoDe[l].par_tras_concepto
            THEN DePatronA(r, l)
            ELSE DePatronB(r, l)]_vars

\* a document read to its end with a line of each kind: the pair after a
\* description, the pair right after the dates, and no pair
C23_Witness ==
    /\ mode = "tc" /\ pc = "done"
    /\ pdf = <<<<LineaConRfc, LineaSoloRfc, LineaUber>>>>
    /\ Len(df) = 3
    /\ \E i \in 1..3 : DePatronA(df[i], LineaConRfc)
    /\ \E i \in 1..3 : df[i].descripcion = <<"U", "B", "E", "R">>

----------------------------------------------------------------------------
(* The record list of the positional extractor (C24) *)

\* the fields of a record other than the detail
SinDetalle(r) == [r EXCEPT !.detalle = <<>>]

Separador == <<" ", "|", " ">>

\* the detail b is the detail a with a non-empty text joined at its end
DetalleExtendido(a, b) ==
    IF a = <<>> THEN b # <<>>
    ELSE /\ Len(b) > Len(a) + Len(Separador)
         /\ SubSeq(b, 1, Len(a) + Len(Separador)) = a \o Separador

\* a step removes and reorders no record and changes no field other than
\* the detail; it either appends one record, of the page being read, and
\* changes nothing else, or changes at most the detail of the last record,
\* by joining text at its end
C24_Paso ==
    mode = "pos" =>
        LET n == Len(movimientos)
        IN  /\ Len(movimientos') \in {n, n + 1}
            /\ \A i \in 1..n :
                  SinDetalle(movimientos'[i]) = SinDetalle(movimientos[i])
            /\ \A i \in 1..(n - 1) : movimientos'[i] = movimientos[i]
            /\ Len(movimientos') = n + 1 =>
                  /\ SubSeq(movimientos', 1, n) = movimientos
                  /\ movimientos'[n + 1].pagina = num_pagina
            /\ n > 0 /\ Len(movimientos') = n =>
                  \/ movimientos'[n].detalle = movimientos[n].detalle
                  \/ DetalleExtendido(movimientos[n].detalle,
                                      movimientos'[n].detalle)

\* the page numbers of the records never decrease along the list, and the
\* result is the list
C24_Estado ==
    mode = "pos" =>
        /\ \A i, j \in 1..Len(movimientos) :
              i <= j => movimientos[i].pagina <= movimientos[j].pagina
        /\ pc = "done" => df = movimientos

\* C24: the record list of the positional extractor only grows at its end,
\* in encounter order: no record is removed or reordered, the page numbers
\* along the list never decrease, every field other than the detail keeps
\* the value it had when the record was appended, and a row changes at most
\* the detail of the last record, by joining text at its end with " | "
C24_SoloCrece == []C24_Estado /\ [][C24_Paso]_vars

\* a record read to the end of the document with the texts of the two rows
\* after it joined in its detail
C24_Witness ==
    /\ mode = "pos" /\ pc = "done"
    /\ Len(df) = 1
    /\ df[1].descripcion = <<"C", "O", "F", "F", "E", "E", " ", "S", "H", "O", "P">>
    /\ df[1].detalle = TextoFila(FilaDetalle(0)) \o Separador
                          \o TextoFila(FilaDetalle(0))

----------------------------------------------------------------------------
(* The message pump of the window (C25) *)

\* _poll_ui_queue is scheduled or running
SigueProgramado == mode = "ui" => sondeo # "parado"

\* the worker w is blocked in _save_reply_q.get()
Esperando(w) == mode = "ui" /\ w <= Len(hilos) /\ hilos[w].pc = "esperar"

\* C25: after any message, every kind of DONE included, _poll_ui_queue stays
\* scheduled, so that every message a worker puts in the queue is handled
\* in the end and a worker that waits for a save-path reply goes on in the
\* end
C25_BombaViva ==
    /\ []SigueProgramado
    /\ (mode = "ui" /\ _ui_queue # <<>>) ~> (_ui_queue = <<>>)
    /\ \A w \in 1..MaxExportaciones : Esperando(w) ~> ~Esperando(w)

\* what does hold: _poll_ui_queue stops only on a DONE without records or
\* without files generated, and once stopped it never runs again
C25_ParadaPorDone ==
    [][mode = "ui" =>
          /\ sondeo' = "parado" /\ sondeo # "parado" =>
                /\ sondeo = "corriendo" /\ _ui_queue # <<>>
                /\ Head(_ui_queue).kind = "DONE"
                /\ \/ Head(_ui_queue).df_total_len = 0
                   \/ Head(_ui_queue).generados = 0
          /\ sondeo = "parado" =>
                sondeo' = "parado" /\ Len(_ui_queue') >= Len(_ui_queue)]_vars

----------------------------------------------------------------------------
(* The export workers and the save dialog (C26) *)

\* the worker w has been started and has not put its last message
EnCurso(w) == w <= Len(hilos) /\ hilos[w].pc # "fin"

\* the k-th reply the worker w has taken answers its k-th request
DeSusPreguntas(w) ==
    \A k \in 1..Len(hilos[w].recibidas) : hilos[w].recibidas[k] = <<w, k>>

C26_Estado ==
    mode = "ui" =>
        /\ Cardinality({w \in 1..Len(hilos) : EnCurso(w)}) <= 1
        /\ \A w \in 1..Len(hilos) : DeSusPreguntas(w)

\* no step deletes the temporary database while a worker that has saved
\* tables in it is running
C26_Paso ==
    mode = "ui" =>
        ~(db_path' = {} /\ \E v \in db_path : EnCurso(v))

\* C26: at most one export worker runs at any time, every ASK_SAVE gets one
\* reply, which the worker that asked takes, for the account it asked
\* about, and starting an export while another is in progress neither takes
\* a reply to another worker nor deletes the temporary database under a
\* running worker
C26_UnSoloHilo == []C26_Estado /\ [][C26_Paso]_vars

=============================================================================
